---- MODULE Spec2Model ----
(***************************************************************************)
(* View-deduplication and cache-consistency engine of veezy-backend.       *)
(*                                                                         *)
(* The repository holds several revisions of the same server.  Each        *)
(* revision is modelled with its own variables and its own specification:  *)
(*   SpecFile    file-backed server            src/server.js 1-307         *)
(*   SpecCached  cached MongoDB server         src/unnamed/part_001        *)
(*   SpecMongo   MongoDB-only server           src/server.js 309-619       *)
(*   SpecP2      in-memory server + IP file    src/unnamed/part_002        *)
(*   SpecP3      cached server, no barrier     src/unnamed/part_003        *)
(*   SpecP4      file-backed, periodic save    src/unnamed/part_004        *)
(* A specification leaves the variables of the other revisions unchanged.  *)
(* The file-backed and the cached server have further specifications that  *)
(* exercise more of their routes on fewer items or clients:                *)
(*   SpecFileRequests, SpecFileFaults, SpecCachedStart, SpecCachedAdmin,   *)
(*   SpecCached2, SpecMongoDel, and SpecReads (both servers side by side). *)
(* The clock moves in SpecFileTimes (file-backed server) and SpecLateTimes *)
(* (part_004 and the controller src/unnamed/part_000).  SpecStore runs the *)
(* two store-backed servers on one store, SpecLazy the cached server on a  *)
(* store that was empty at its start.  SpecCachedDel and SpecCachedSet run *)
(* the view route of the cached server beside its delete and its set-views *)
(* route on one item; SpecP4Live is part_004 with a fair auto-save timer.  *)
(***************************************************************************)
EXTENDS Integers, FiniteSets, Sequences, Bags, TLC

VARIABLES
    now,           \* the wall clock that new Date() reads
    \* ---- file-backed server (src/server.js 1-307)
    f_videos,      \* let videos   : itemId -> [views, uploadTime]
    f_viewedIPs,   \* let viewedIPs: itemId -> Set | plain object
    f_file,        \* contents of data.json
    f_resp,        \* the response of the last request
    f_counted,     \* history: clients whose view was counted, per item lifetime
    f_run,         \* history: the current run of consecutive recordView calls
    f_observed,    \* history: items that have had an Item Record
    f_unread,      \* history: the data file a failed loadData() did not read
    \* ---- the MongoDB store shared by part_001 and src/server.js 309-619
    db_videos,     \* Video collection   : videoId -> [views, uploadTime,
                   \*                                  title, loading]
    db_viewed,     \* ViewedIP collection: <<videoId, ip>> -> number of documents
    db_faults,     \* history: number of store operations that failed
    \* ---- cached MongoDB server (src/unnamed/part_001), one entry per process
    c_phase,       \* "loadVideos" | "loadIPs" | "serving" | "failed"; the
                   \* start of part_003 has "upsert1" and "upsert2" as well
    c_videos,      \* let videos
    c_viewedIPs,   \* let viewedIPs
    c_inflight,    \* bag of view handlers suspended at an await
    c_resp,        \* the response sent by the last step, if any
    c_base,        \* history: views of each item when the process loaded it
    c_loaded,      \* history: the Dedup Index as loadData() built it
    c_called,      \* history: clients that called recordView since the load
    c_crashes,     \* history: number of process restarts
    c_clean,       \* history: no handler was cut short by a fault or a crash
    c_accepted,    \* history: the process has accepted a request since it started
    \* ---- MongoDB-only server (src/server.js 309-619): it keeps no state
    m_inflight,    \* bag of view handlers suspended at an await
    m_resp,        \* the response sent by the last step, if any
    m_called,      \* history: clients that called recordView, per item
    \* ---- src/unnamed/part_002
    p2_videos,     \* const videos
    p2_viewedIPs,  \* const viewedIPs
    p2_file,       \* viewedIPs.json
    p2_resp,       \* the response of the last request
    p2_deleted,    \* history: items deleted since the process started
    \* ---- src/unnamed/part_004
    p4_videos,     \* let videos   : itemId -> [views, uploadTime]
    p4_viewedIPs,  \* let viewedIPs
    p4_file,       \* contents of data.json
    p4_resp,       \* the response of the last request
    \* ---- the controller src/unnamed/part_000: it keeps no state
    k_bulk,        \* the bulkUpdateTimes handler suspended at an await
    k_resp         \* the response sent by the last step, if any

fvars == <<f_videos, f_viewedIPs, f_file, f_resp, f_counted, f_run,
          f_observed, f_unread>>
dbvars == <<db_videos, db_viewed, db_faults>>
cvars == <<c_phase, c_videos, c_viewedIPs, c_inflight, c_resp, c_base,
           c_loaded, c_called, c_crashes, c_clean, c_accepted>>

mvars == <<m_inflight, m_resp, m_called>>
p2vars == <<p2_videos, p2_viewedIPs, p2_file, p2_resp, p2_deleted>>
p4vars == <<p4_videos, p4_viewedIPs, p4_file, p4_resp>>
kvars == <<k_bulk, k_resp>>

vars == <<now, fvars, dbvars, cvars, mvars, p2vars, p4vars, kvars>>

\* what a step of one server leaves alone: the clock and the other servers
notF == <<now, dbvars, cvars, mvars, p2vars, p4vars, kvars>>
notC == <<now, fvars, mvars, p2vars, p4vars, kvars>>
notM == <<now, fvars, cvars, p2vars, p4vars, kvars>>
notP2 == <<now, fvars, dbvars, cvars, mvars, p4vars, kvars>>
notP4 == <<now, fvars, dbvars, cvars, mvars, p2vars, kvars>>
notK == <<now, fvars, cvars, mvars, p2vars, p4vars>>

(***************************************************************************)
(* Bounds and input sets                                                   *)
(***************************************************************************)
\* item identifiers: "1" and "2" are the seeded items, "42" is never seeded
VideoIds == {"1", "2", "42"}
ClientIPs == {"ip1", "ip2"}
\* length up to which a run of consecutive recordView calls is counted
MaxRun == 3

\* item identifiers of the store-backed servers: "1" was uploaded before
\* the servers started, "7" has no Item Record
DbVideoIds == {"1", "7"}
Procs == {"A", "B"}
\* view handlers suspended at an await at the same time
MaxInFlight == 2
\* store operations that fail, and process restarts, in one behaviour
MaxFaults == 1
MaxCrashes == 1

SeedViews1 == 142
SeedViews2 == 87

\* the items the admin routes are exercised on: one seeded, one not
AdminVideoIds == {"1", "42"}
\* the clock counts from 0, the time of the first start, up to MaxTime
MaxTime == 2
\* req.body.newTime: absent, a text that is no date, or a date; the dates
\* reach one past MaxTime, so that some date is always in the future
TimeInput(kind, t) == [kind |-> kind, t |-> t]
TimeInputs == {TimeInput("missing", 0), TimeInput("invalid", 0)}
                  \cup {TimeInput("date", t) : t \in 0..(MaxTime + 1)}
\* req.body.views: absent, a text that is no number, or an integer
ViewsInput(kind, n) == [kind |-> kind, n |-> n]
ViewsInputs == {ViewsInput("undefined", 0), ViewsInput("text", 0),
                ViewsInput("int", -1), ViewsInput("int", 0), ViewsInput("int", 1)}
\* req.body.updates of a bulk update: up to MaxBulk entries { id, newTime }
MaxBulk == 2
BulkEntries == {[id |-> "", newTime |-> TimeInput("date", 0)],
                [id |-> "1", newTime |-> TimeInput("invalid", 0)],
                [id |-> "1", newTime |-> TimeInput("date", 1)],
                [id |-> "42", newTime |-> TimeInput("date", MaxTime + 1)],
                [id |-> "42", newTime |-> TimeInput("date", 0)]}
BulkInputs == UNION {[1..n -> BulkEntries] : n \in 0..MaxBulk}

(***************************************************************************)
(* JavaScript values                                                       *)
(***************************************************************************)
\* new Set() and a Set with members
JsSet(members) == [kind |-> "Set", members |-> members]
\* the plain object {} that JSON.parse yields for a serialised Set
PlainObject == [kind |-> "Object", members |-> {}]

\* JSON.stringify of one value of viewedIPs: a Set has no enumerable own
\* properties, so it is written as {} ; its members are not written.
StringifySet(s) == PlainObject

\* JSON.stringify({ videos, viewedIPs }) followed by JSON.parse: what a
\* reader of the file gets back.
JsonRoundTrip(videos, viewedIPs) ==
    [videos    |-> videos,
     viewedIPs |-> [v \in DOMAIN viewedIPs |-> StringifySet(viewedIPs[v])]]

\* s.has(c): a TypeError when s is not a Set (has is undefined)
HasIsFunction(s) == s.kind = "Set"
SetHas(s, c) == c \in s.members
SetAdd(s, c) == JsSet(s.members \cup {c})

\* obj[key] = value on a function used as a JS object
Put(obj, key, value) ==
    [k \in DOMAIN obj \cup {key} |-> IF k = key THEN value ELSE obj[k]]
\* delete obj[key]
Del(obj, key) == [k \in DOMAIN obj \ {key} |-> obj[k]]

\* A response.  views, alreadyViewed, updatedCount, errorCount and results
\* are fields of the JSON body; err names what made a 500; incremented, created
\* and purged are history: whether the handler ran its views++ branch, its
\* lazy-creation branch, and removed a Dedup Index entry; saved is history
\* too: whether a handler of the file-backed server called saveData().
\* success is a field of the body of a bulk update, entries is the length
\* of the array of updates it was sent.
NoResp == [op |-> "none", status |-> 0, proc |-> "", vid |-> "", ip |-> "",
           views |-> 0, alreadyViewed |-> FALSE, err |-> "",
           incremented |-> FALSE, created |-> FALSE, purged |-> FALSE,
           updatedCount |-> 0, errorCount |-> 0, results |-> <<>>,
           saved |-> FALSE, success |-> FALSE, entries |-> 0]
ViewResp(p, v, c, views, already, inc, created) ==
    [op |-> "view", status |-> 200, proc |-> p, vid |-> v, ip |-> c,
     views |-> views, alreadyViewed |-> already, err |-> "",
     incremented |-> inc, created |-> created, purged |-> FALSE,
     updatedCount |-> 0, errorCount |-> 0, results |-> <<>>,
     saved |-> FALSE, success |-> FALSE, entries |-> 0]
ViewError(p, v, c, err, inc, created) ==
    [op |-> "view", status |-> 500, proc |-> p, vid |-> v, ip |-> c,
     views |-> 0, alreadyViewed |-> FALSE, err |-> err,
     incremented |-> inc, created |-> created, purged |-> FALSE,
     updatedCount |-> 0, errorCount |-> 0, results |-> <<>>,
     saved |-> FALSE, success |-> FALSE, entries |-> 0]
OpResp(op, status, p, v) ==
    [NoResp EXCEPT !.op = op, !.status = status, !.proc = p, !.vid = v]

NoRun == [vid |-> "", ip |-> "", n |-> 0, base |-> 0, fresh |-> FALSE]

(***************************************************************************)
(* File-backed server: src/server.js lines 1-307                           *)
(***************************************************************************)
\* the sample data loadData() installs when no data file exists
F_SampleVideos ==
    [v \in {"1", "2"} |-> [views |-> IF v = "1" THEN SeedViews1 ELSE SeedViews2,
                           uploadTime |-> now]]

\* saveData(): the file as a later loadData() will read it
F_saveData(videos, viewedIPs) == JsonRoundTrip(videos, viewedIPs)

\* if (!videos[videoId])
\*     videos[videoId] = { views: 0, uploadTime: new Date().toISOString() }
F_InitVideo(videos, v) ==
    IF v \in DOMAIN videos THEN videos
    ELSE Put(videos, v, [views |-> 0, uploadTime |-> now])

\* if (!viewedIPs[videoId]) viewedIPs[videoId] = new Set()
\* (a plain object {} is truthy and is kept)
F_InitIPs(viewedIPs, v) ==
    IF v \in DOMAIN viewedIPs THEN viewedIPs ELSE Put(viewedIPs, v, JsSet({}))

\* a handler that does not consult the Dedup Index
F_FirstSeenAlways(viewedIPs, v, c) == TRUE

\* the condition of line 131 : !viewedIPs[videoId].has(clientIP)
F_FirstSeen(viewedIPs, v, c) == ~SetHas(viewedIPs[v], c)

\* the response field of line 139, read after the branch has run
F_AlreadyViewed(viewedIPs, v, c) == SetHas(viewedIPs[v], c)

\* views of an item as a reader of the table sees it (0 when absent)
ViewsOf(videos, v) == IF v \in DOMAIN videos THEN videos[v].views ELSE 0

\* history of the run of consecutive recordView(v, c) calls
NextRun(run, v, c, videos, counted) ==
    IF run.n > 0 /\ run.vid = v /\ run.ip = c
    THEN [run EXCEPT !.n = IF run.n < MaxRun THEN run.n + 1 ELSE run.n]
    ELSE [vid |-> v, ip |-> c, n |-> 1, base |-> ViewsOf(videos, v),
          fresh |-> c \notin counted[v]]

\* POST /videos/:id/view
F_RecordView(v, c) ==
    /\ UNCHANGED notF
    /\ f_observed' = f_observed \cup {v}
    /\ UNCHANGED f_unread
    /\ LET vs1  == F_InitVideo(f_videos, v)
           ips1 == F_InitIPs(f_viewedIPs, v)
       IN  /\ f_run' = NextRun(f_run, v, c, f_videos, f_counted)
           /\ IF ~HasIsFunction(ips1[v])
              THEN \* TypeError: viewedIPs[videoId].has is not a function;
                   \* the error middleware answers 500
                   /\ f_videos' = vs1
                   /\ f_viewedIPs' = ips1
                   /\ f_resp' = ViewError("", v, c, "TypeError", FALSE,
                                         v \notin DOMAIN f_videos)
                   /\ UNCHANGED <<f_file, f_counted>>
              ELSE IF F_FirstSeen(ips1, v, c)
              THEN LET vs2  == [vs1 EXCEPT ![v].views = @ + 1]
                       ips2 == [ips1 EXCEPT ![v] = SetAdd(@, c)]
                   IN  /\ f_videos' = vs2
                       /\ f_viewedIPs' = ips2
                       /\ f_file' = F_saveData(vs2, ips2)
                       /\ f_counted' = [f_counted EXCEPT ![v] = @ \cup {c}]
                       /\ f_resp' = [ViewResp("", v, c, vs2[v].views,
                                              F_AlreadyViewed(ips2, v, c), TRUE,
                                              v \notin DOMAIN f_videos)
                                        EXCEPT !.saved = TRUE]
              ELSE /\ f_videos' = vs1
                   /\ f_viewedIPs' = ips1
                   /\ f_resp' = ViewResp("", v, c, vs1[v].views,
                                         F_AlreadyViewed(ips1, v, c), FALSE,
                                         v \notin DOMAIN f_videos)
                   /\ UNCHANGED <<f_file, f_counted>>

\* a GET handler that stores the default record it answers with
F_GetStores(videos, v) == F_InitVideo(videos, v)

\* what GET /videos/:id leaves in the item table: the default record of an
\* unknown id is built for the response only
F_GetLeaves(videos, v) == videos

\* GET /videos/:id : videos[videoId] || { views: 0, uploadTime: now }
F_GetState(v) ==
    /\ f_videos' = F_GetLeaves(f_videos, v)
    /\ f_resp' = [OpResp("get", 200, "", v) EXCEPT !.views = ViewsOf(f_videos, v)]
    /\ f_run' = NoRun
    /\ UNCHANGED <<f_viewedIPs, f_file, f_counted, f_observed, f_unread>>
    /\ UNCHANGED notF

\* a validation without the check of line 161
F_TimeAcceptedAnyDate(t) == t.kind = "date"

\* lines 154-163: newTime is present, parses as a date and is not after now
F_TimeAccepted(t) == t.kind = "date" /\ ~(t.t > now)

\* if (!videos[videoId]) videos[videoId] = { views: 0 } followed by
\* videos[videoId].uploadTime = newTime
F_SetTime(videos, v, t) ==
    Put(videos, v, [views |-> ViewsOf(videos, v), uploadTime |-> t])

\* POST /admin/videos/:id/set-upload-time
F_SetUploadTime(v, t) ==
    /\ f_run' = NoRun
    /\ IF ~F_TimeAccepted(t)
       THEN /\ f_resp' = OpResp("set-upload-time", 400, "", v)
            /\ UNCHANGED <<f_videos, f_file, f_observed>>
       ELSE LET vs == F_SetTime(f_videos, v, t.t)
            IN  /\ f_videos' = vs
                /\ f_file' = F_saveData(vs, f_viewedIPs)
                /\ f_observed' = f_observed \cup {v}
                /\ f_resp' = [OpResp("set-upload-time", 200, "", v) EXCEPT
                                 !.created = v \notin DOMAIN f_videos,
                                 !.saved = TRUE]
    /\ UNCHANGED <<f_viewedIPs, f_counted, f_unread>>
    /\ UNCHANGED notF

\* the entries of a bulk update that pass lines 188-196
F_BulkAccepted(updates) ==
    {i \in DOMAIN updates : updates[i].id # "" /\ F_TimeAccepted(updates[i].newTime)}

\* updates.forEach(...): an accepted entry creates { views: 0 } for an
\* unknown id and sets uploadTime, in the order of the array
RECURSIVE F_ApplyUpdates(_, _)
F_ApplyUpdates(videos, updates) ==
    IF updates = <<>> THEN videos
    ELSE LET u    == Head(updates)
             next == IF 1 \in F_BulkAccepted(<<u>>)
                     THEN F_SetTime(videos, u.id, u.newTime.t) ELSE videos
         IN  F_ApplyUpdates(next, Tail(updates))

\* results.push({ id, status: 'updated', newTime }) of the accepted entries
F_BulkResults(updates) ==
    SelectSeq([i \in DOMAIN updates |->
                  [id |-> updates[i].id, newTime |-> updates[i].newTime.t,
                   ok |-> i \in F_BulkAccepted(updates)]],
              LAMBDA r : r.ok)

\* errors.push(...) : the entries that leave the loop body at line 188
\* (!update.id || !update.newTime || isNaN(new Date(update.newTime).getTime()))
\* or at line 193 (new Date(update.newTime) > now)
F_BulkErrors(updates) ==
    SelectSeq(updates,
              LAMBDA u : \/ u.id = "" \/ u.newTime.kind # "date"
                         \/ u.newTime.t > now)

\* POST /admin/videos/bulk-update-times
F_BulkUpdateTimes(isArray, updates) ==
    /\ f_run' = NoRun
    /\ IF ~isArray
       THEN /\ updates = <<>>
            /\ f_resp' = OpResp("bulk-update-times", 400, "", "")
            /\ UNCHANGED <<f_videos, f_file, f_observed>>
       ELSE LET vs      == F_ApplyUpdates(f_videos, updates)
                results == F_BulkResults(updates)
                errors  == F_BulkErrors(updates)
            IN  /\ f_videos' = vs
                /\ f_file' = F_saveData(vs, f_viewedIPs)
                /\ f_observed' = f_observed \cup DOMAIN vs
                /\ f_resp' = [OpResp("bulk-update-times", 200, "", "") EXCEPT
                                 !.success = (Len(errors) = 0),
                                 !.updatedCount = Len(results),
                                 !.errorCount = Len(errors),
                                 !.results = results,
                                 !.entries = Len(updates),
                                 !.saved = TRUE]
    /\ UNCHANGED <<f_viewedIPs, f_counted, f_unread>>
    /\ UNCHANGED notF

\* parseInt(views) and isNaN(parseInt(views))
ParseInt(x) == x.n
ParseIntIsNaN(x) == x.kind # "int"

\* line 231: views === undefined || isNaN(parseInt(views)) || parseInt(views) < 0
F_SetViewsRejects(x) ==
    x.kind = "undefined" \/ ParseIntIsNaN(x) \/ ParseInt(x) < 0

\* POST /admin/videos/:id/set-views
F_SetViews(v, x) ==
    /\ f_run' = NoRun
    /\ IF F_SetViewsRejects(x)
       THEN /\ f_resp' = OpResp("set-views", 400, "", v)
            /\ UNCHANGED <<f_videos, f_file, f_observed>>
       ELSE LET vs == Put(f_videos, v,
                           [views |-> ParseInt(x),
                            uploadTime |-> IF v \in DOMAIN f_videos
                                           THEN f_videos[v].uploadTime ELSE now])
            IN  /\ f_videos' = vs
                /\ f_file' = F_saveData(vs, f_viewedIPs)
                /\ f_observed' = f_observed \cup {v}
                /\ f_resp' = [OpResp("set-views", 200, "", v) EXCEPT
                                 !.views = vs[v].views,
                                 !.created = v \notin DOMAIN f_videos,
                                 !.saved = TRUE]
    /\ UNCHANGED <<f_viewedIPs, f_counted, f_unread>>
    /\ UNCHANGED notF

\* a delete handler that forgets the Dedup Index entry
F_DeleteVideoOnly(mem, v) ==
    [videos |-> Del(mem.videos, v), viewedIPs |-> mem.viewedIPs]

\* what DELETE /admin/videos/:id removes from memory: delete videos[videoId]
\* and, if (viewedIPs[videoId]), delete viewedIPs[videoId]
F_DeleteFrom(mem, v) ==
    [videos    |-> Del(mem.videos, v),
     viewedIPs |-> IF v \in DOMAIN mem.viewedIPs
                   THEN Del(mem.viewedIPs, v) ELSE mem.viewedIPs]

\* DELETE /admin/videos/:id
F_Delete(v) ==
    /\ f_run' = NoRun
    /\ IF v \notin DOMAIN f_videos
       THEN /\ f_resp' = OpResp("delete", 404, "", v)
            /\ UNCHANGED <<f_videos, f_viewedIPs, f_file, f_counted>>
       ELSE LET mem == F_DeleteFrom([videos |-> f_videos,
                                     viewedIPs |-> f_viewedIPs], v)
            IN  /\ f_videos' = mem.videos
                /\ f_viewedIPs' = mem.viewedIPs
                /\ f_file' = F_saveData(mem.videos, mem.viewedIPs)
                /\ f_counted' = [f_counted EXCEPT ![v] = {}]
                /\ f_resp' = [OpResp("delete", 200, "", v) EXCEPT
                                 !.purged = v \in DOMAIN f_viewedIPs,
                                 !.saved = TRUE]
    /\ UNCHANGED <<f_observed, f_unread>>
    /\ UNCHANGED notF

\* loadData() when the data file exists and is read
F_loadData(file) == [videos |-> file.videos, viewedIPs |-> file.viewedIPs]

\* loadData() when reading or parsing the data file throws: the catch block
\* of lines 51-56 falls back to empty tables and returns normally
F_loadDataFailed == [videos |-> <<>>, viewedIPs |-> <<>>]

NoUnread == [failed |-> FALSE, file |-> F_loadDataFailed]

\* The process stops and starts again.  On SIGINT/SIGTERM (graceful) the
\* handler calls saveData() before exiting; a crash does not.  At the start
\* loadData() reads the file, and app.listen follows.
F_Restart(graceful) ==
    /\ UNCHANGED notF
    /\ LET file   == IF graceful THEN F_saveData(f_videos, f_viewedIPs) ELSE f_file
           loaded == F_loadData(file)
       IN  /\ f_file' = file
           /\ f_videos' = loaded.videos
           /\ f_viewedIPs' = loaded.viewedIPs
           /\ f_unread' = NoUnread
           /\ f_resp' = OpResp("restart", 0, "", "")
           /\ f_run' = NoRun
           /\ UNCHANGED <<f_counted, f_observed>>

\* The process stops and starts again, and at the start readFileSync or
\* JSON.parse throws: loadData() falls back to empty tables, and app.listen
\* follows all the same (lines 285-294).
F_RestartUnread(graceful) ==
    /\ UNCHANGED notF
    /\ LET file   == IF graceful THEN F_saveData(f_videos, f_viewedIPs) ELSE f_file
           loaded == F_loadDataFailed
       IN  /\ f_file' = file
           /\ f_videos' = loaded.videos
           /\ f_viewedIPs' = loaded.viewedIPs
           /\ f_unread' = [failed |-> TRUE, file |-> file]
           /\ f_resp' = OpResp("restart", 0, "", "")
           /\ f_run' = NoRun
           /\ UNCHANGED <<f_counted, f_observed>>

\* time passes
Tick ==
    /\ now < MaxTime
    /\ now' = now + 1
    /\ UNCHANGED <<fvars, dbvars, cvars, mvars, p2vars, p4vars, kvars>>

\* first start, no data file: loadData() installs the samples and saves
FInit ==
    /\ f_videos = F_SampleVideos
    /\ f_viewedIPs = <<>>
    /\ f_file = F_saveData(F_SampleVideos, <<>>)
    /\ f_resp = NoResp
    /\ f_counted = [v \in VideoIds |-> {}]
    /\ f_run = NoRun
    /\ f_observed = DOMAIN F_SampleVideos
    /\ f_unread = NoUnread

FNext ==
    \/ \E v \in VideoIds, c \in ClientIPs : F_RecordView(v, c)
    \/ \E v \in VideoIds : F_Delete(v)
    \/ \E g \in BOOLEAN : F_Restart(g)

\* the file-backed server with a data file that may fail to load
FFaultNext ==
    \/ \E v \in AdminVideoIds, c \in ClientIPs : F_RecordView(v, c)
    \/ \E v \in AdminVideoIds : F_GetState(v)
    \/ \E v \in AdminVideoIds : F_Delete(v)
    \/ \E g \in BOOLEAN : F_Restart(g)
    \/ \E g \in BOOLEAN : F_RestartUnread(g)

\* the requests of one process lifetime: every route of the file-backed
\* server, for the items of AdminVideoIds
FRequestNext ==
    \/ \E v \in AdminVideoIds, c \in ClientIPs : F_RecordView(v, c)
    \/ \E v \in AdminVideoIds : F_Delete(v)
    \/ \E v \in AdminVideoIds : F_GetState(v)
    \/ \E v \in AdminVideoIds, t \in TimeInputs : F_SetUploadTime(v, t)
    \/ \E updates \in BulkInputs : F_BulkUpdateTimes(TRUE, updates)
    \/ F_BulkUpdateTimes(FALSE, <<>>)
    \/ \E v \in AdminVideoIds, x \in ViewsInputs : F_SetViews(v, x)

\* the routes that write an uploadTime, while time passes: the admin routes
\* on a seeded and an unseeded item, recordView and delete on the unseeded one
FTimesNext ==
    \/ F_RecordView("42", "ip1")
    \/ F_Delete("42")
    \/ \E v \in AdminVideoIds, t \in TimeInputs : F_SetUploadTime(v, t)
    \/ \E updates \in BulkInputs : F_BulkUpdateTimes(TRUE, updates)
    \/ F_BulkUpdateTimes(FALSE, <<>>)
    \/ \E x \in ViewsInputs : F_SetViews("42", x)
    \/ Tick


(***************************************************************************)
(* The MongoDB store: src/models/models/Video.js, ViewedIP.js              *)
(***************************************************************************)
Pairs == DbVideoIds \X ClientIPs

\* a ViewedIP collection without the unique index
DbNoUniqueIndex(viewed, v, c) == TRUE

\* ViewedIPSchema.index({ videoId: 1, ip: 1 }, { unique: true }):
\* whether an insert of (v, c) passes the unique index
DbUniqueIndexOk(viewed, v, c) == viewed[<<v, c>>] = 0

\* ViewedIP.create({ videoId, ip }) once the index has let it pass
DbInsertViewedIP(viewed, v, c) == [viewed EXCEPT ![<<v, c>>] = @ + 1]

\* an update whose filter matches every document
DbUpdateManyInc(videos, v) ==
    [w \in DOMAIN videos |-> [videos[w] EXCEPT !.views = @ + 1]]

\* Video.updateOne({ videoId }, { $inc: { views: 1 } }) : no upsert, a
\* filter that matches no document changes nothing and is no error
DbUpdateOneInc(videos, v) ==
    IF v \in DOMAIN videos THEN [videos EXCEPT ![v].views = @ + 1] ELSE videos

\* ViewedIP.find(), grouped by videoId as loadData() does
DbReceiptsOf(viewed, v) == {c \in ClientIPs : viewed[<<v, c>>] > 0}
DbItemsWithReceipts(viewed) == {v \in DbVideoIds : DbReceiptsOf(viewed, v) # {}}

\* JavaScript's undefined, where a string is expected
Undefined == "undefined"
\* the template string `Video ${videoId}`
VideoTitle(v) == "Video " \o v
\* the title an upload gave to an item (req.body.title)
UploadTitle(v) == "Upload " \o v

\* a Video document: views, uploadTime and loading have schema defaults
\* (0, Date.now, false), title has none
DbDoc(views, uploadTime, title) ==
    [views |-> views, uploadTime |-> uploadTime, title |-> title,
     loading |-> FALSE]

\* the document an upsert inserts when the update names only views: the
\* other fields get the schema defaults
DbInserted(views) == DbDoc(views, now, Undefined)

\* a store that holds no document yet
DbInitEmpty ==
    /\ db_videos = <<>>
    /\ db_viewed = [pr \in Pairs |-> 0]
    /\ db_faults = 0

DbInit ==
    /\ db_videos = [v \in {"1"} |-> DbDoc(0, now, UploadTitle(v))]
    /\ db_viewed = [pr \in Pairs |-> 0]
    /\ db_faults = 0

(***************************************************************************)
(* Cached MongoDB server: src/unnamed/part_001                             *)
(***************************************************************************)
\* loadData(), first half: videos = dbVideos.reduce(...)
C_loadVideos(dbVideos) ==
    [v \in DOMAIN dbVideos |->
        [views |-> dbVideos[v].views, uploadTime |-> dbVideos[v].uploadTime,
         title |-> dbVideos[v].title, loading |-> FALSE]]

\* loadData(), second half: viewedIPs = dbViewedIPs.reduce(...)
C_loadViewedIPs(dbViewed) ==
    [v \in DbItemsWithReceipts(dbViewed) |-> JsSet(DbReceiptsOf(dbViewed, v))]

\* if (!videos[videoId]) videos[videoId] = { views: 0, ..., loading: true }
\* followed by videos[videoId].loading = true
C_InitVideo(videos, v) ==
    IF v \in DOMAIN videos
    THEN [videos EXCEPT ![v].loading = TRUE]
    ELSE Put(videos, v, [views |-> 0, uploadTime |-> now,
                         title |-> VideoTitle(v), loading |-> TRUE])

\* a Dedup Index that starts the set of a new item with the clients of
\* the other items
C_InitIPsShared(viewedIPs, v) ==
    IF v \in DOMAIN viewedIPs THEN viewedIPs
    ELSE Put(viewedIPs, v,
             JsSet(UNION {viewedIPs[w].members : w \in DOMAIN viewedIPs}))

\* if (!viewedIPs[videoId]) viewedIPs[videoId] = new Set()
C_InitIPs(viewedIPs, v) ==
    IF v \in DOMAIN viewedIPs THEN viewedIPs ELSE Put(viewedIPs, v, JsSet({}))

\* a handler that does not consult the Dedup Index
C_FirstSeenAlways(viewedIPs, v, c) == TRUE

\* the condition of line 134 : !viewedIPs[videoId].has(clientIP)
C_FirstSeen(viewedIPs, v, c) == ~SetHas(viewedIPs[v], c)

\* the response field of line 145
C_AlreadyViewed(viewedIPs, v, c) == SetHas(viewedIPs[v], c)

\* finally { videos[videoId].loading = false }
C_Finally(videos, v) ==
    IF v \in DOMAIN videos THEN [videos EXCEPT ![v].loading = FALSE] ELSE videos

\* finally { videos[videoId].loading = false } when videos[videoId] is
\* undefined: the assignment throws a TypeError outside the try block, and
\* the promise of the async handler rejects with nobody to catch it
C_FinallyThrows(videos, v) == v \notin DOMAIN videos

\* what the catch block leaves in memory when a durable write has failed:
\* it only logs and answers 500
C_Catch(mem, v, c) == mem

\* a handler suspended at an await: pc names the await, val is the view
\* count a set-views request carries
Req(p, v, c, pc) == [proc |-> p, vid |-> v, ip |-> c, pc |-> pc, val |-> 0]
One(r) == SetToBag({r})
InFlightOf(bag, p) == {r \in BagToSet(bag) : r.proc = p}

\* a server that listens as soon as the module is loaded
C_ListensAlways(phase) == TRUE

\* loadData().then(() => app.listen(...)): the process accepts requests once
\* loadData() has resolved
C_Listens(phase) == phase = "serving"

\* POST /videos/:id/view, from the request to the first await (or to the
\* response, when the client is already in the Dedup Index)
C_View(p, v, c) ==
    /\ UNCHANGED notC
    /\ LET vs1     == C_InitVideo(c_videos[p], v)
           ips1    == C_InitIPs(c_viewedIPs[p], v)
           created == v \notin DOMAIN c_videos[p]
       IN  /\ c_accepted' = [c_accepted EXCEPT ![p] = TRUE]
           /\ c_called' = [c_called EXCEPT ![p][v] = @ \cup {c}]
           /\ IF C_FirstSeen(ips1, v, c)
              THEN /\ BagCardinality(c_inflight) < MaxInFlight
                   /\ c_videos' = [c_videos EXCEPT ![p] =
                                      [vs1 EXCEPT ![v].views = @ + 1]]
                   /\ c_viewedIPs' = [c_viewedIPs EXCEPT ![p] =
                                         [ips1 EXCEPT ![v] = SetAdd(@, c)]]
                   /\ c_inflight' = c_inflight (+) One(Req(p, v, c, "updateOne"))
                   /\ c_resp' = NoResp
              ELSE /\ c_videos' = [c_videos EXCEPT ![p] = C_Finally(vs1, v)]
                   /\ c_viewedIPs' = [c_viewedIPs EXCEPT ![p] = ips1]
                   /\ c_resp' = ViewResp(p, v, c, vs1[v].views,
                                         C_AlreadyViewed(ips1, v, c), FALSE, created)
                   /\ UNCHANGED c_inflight
           /\ UNCHANGED <<dbvars, c_phase, c_base, c_loaded, c_crashes, c_clean>>

C_ViewStart(p, v, c) == C_Listens(c_phase[p]) /\ C_View(p, v, c)

\* what GET /videos/:id does to the item table: nothing
C_GetLeaves(videos, v) == videos

\* GET /videos/:id
C_Get(p, v) ==
    /\ c_videos' = [c_videos EXCEPT ![p] = C_GetLeaves(@, v)]
    /\ c_resp' = IF v \in DOMAIN c_videos[p]
                 THEN [OpResp("get", 200, p, v) EXCEPT !.views = c_videos[p][v].views]
                 ELSE OpResp("get", 404, p, v)
    /\ c_accepted' = [c_accepted EXCEPT ![p] = TRUE]
    /\ UNCHANGED <<dbvars, c_phase, c_viewedIPs, c_inflight, c_base, c_loaded,
                   c_called, c_crashes, c_clean>>
    /\ UNCHANGED notC

C_GetState(p, v) == C_Listens(c_phase[p]) /\ C_Get(p, v)

\* the catch and finally blocks, after a durable write of r has failed
C_Fail(r, err) ==
    LET p   == r.proc
        mem == C_Catch([videos |-> c_videos[p], viewedIPs |-> c_viewedIPs[p]],
                       r.vid, r.ip)
    IN  /\ c_videos' = [c_videos EXCEPT ![p] = C_Finally(mem.videos, r.vid)]
        /\ c_viewedIPs' = [c_viewedIPs EXCEPT ![p] = mem.viewedIPs]
        /\ c_inflight' = c_inflight (-) One(r)
        /\ c_resp' = ViewError(p, r.vid, r.ip, err, TRUE, FALSE)

\* await Video.updateOne({ videoId }, { $inc: { views: 1 } }) settles
C_UpdateOneDone(r, ok) ==
    /\ BagIn(r, c_inflight) /\ r.pc = "updateOne"
    /\ IF ok
       THEN /\ db_videos' = DbUpdateOneInc(db_videos, r.vid)
            /\ c_inflight' = (c_inflight (-) One(r)) (+) One([r EXCEPT !.pc = "create"])
            /\ c_resp' = NoResp
            /\ UNCHANGED <<db_faults, c_videos, c_viewedIPs, c_clean>>
       ELSE /\ db_faults < MaxFaults
            /\ db_faults' = db_faults + 1
            /\ c_clean' = FALSE
            /\ C_Fail(r, "fault")
            /\ UNCHANGED db_videos
    /\ UNCHANGED <<db_viewed, c_phase, c_base, c_loaded, c_called, c_crashes,
                   c_accepted>>
    /\ UNCHANGED notC

\* await ViewedIP.create({ videoId, ip: clientIP }) settles, and the
\* handler runs to its end
C_CreateDone(r, ok) ==
    /\ UNCHANGED notC
    /\ LET p == r.proc
       IN  /\ BagIn(r, c_inflight) /\ r.pc = "create"
           /\ IF ~ok
              THEN /\ db_faults < MaxFaults
                   /\ db_faults' = db_faults + 1
                   /\ c_clean' = FALSE
                   /\ C_Fail(r, "fault")
                   /\ UNCHANGED db_viewed
              ELSE IF ~DbUniqueIndexOk(db_viewed, r.vid, r.ip)
              THEN \* E11000 duplicate key error
                   /\ C_Fail(r, "E11000")
                   /\ UNCHANGED <<db_viewed, db_faults, c_clean>>
              ELSE IF r.vid \notin DOMAIN c_videos[p] \/ r.vid \notin DOMAIN c_viewedIPs[p]
              THEN \* the tables were replaced while the handler was suspended:
                   \* building the response throws a TypeError and the catch
                   \* block answers 500 (when videos[videoId] is gone the
                   \* finally block throws again: an unhandled rejection)
                   /\ db_viewed' = DbInsertViewedIP(db_viewed, r.vid, r.ip)
                   /\ C_Fail(r, "TypeError")
                   /\ c_clean' = FALSE
                   /\ UNCHANGED db_faults
              ELSE /\ db_viewed' = DbInsertViewedIP(db_viewed, r.vid, r.ip)
                   /\ c_inflight' = c_inflight (-) One(r)
                   /\ c_videos' = [c_videos EXCEPT ![p] = C_Finally(@, r.vid)]
                   /\ c_resp' = ViewResp(p, r.vid, r.ip, c_videos[p][r.vid].views,
                                         C_AlreadyViewed(c_viewedIPs[p], r.vid, r.ip),
                                         TRUE, FALSE)
                   /\ UNCHANGED <<db_faults, c_viewedIPs, c_clean>>
           /\ UNCHANGED <<db_videos, c_phase, c_base, c_loaded, c_called, c_crashes,
                          c_accepted>>

\* the process dies; its memory and its suspended handlers are gone
C_Crash(p) ==
    /\ c_phase[p] = "serving"
    /\ c_crashes < MaxCrashes
    /\ c_crashes' = c_crashes + 1
    /\ c_phase' = [c_phase EXCEPT ![p] = "loadVideos"]
    /\ c_videos' = [c_videos EXCEPT ![p] = <<>>]
    /\ c_viewedIPs' = [c_viewedIPs EXCEPT ![p] = <<>>]
    /\ c_inflight' = [r \in BagToSet(c_inflight) \ InFlightOf(c_inflight, p)
                        |-> c_inflight[r]]
    /\ c_clean' = (c_clean /\ InFlightOf(c_inflight, p) = {})
    /\ c_resp' = OpResp("crash", 0, p, "")
    /\ c_accepted' = [c_accepted EXCEPT ![p] = FALSE]
    /\ UNCHANGED <<dbvars, c_base, c_loaded, c_called>>
    /\ UNCHANGED notC

\* loadData(): const dbVideos = await Video.find(); videos = ...
C_LoadVideos(p) ==
    /\ c_phase[p] = "loadVideos"
    /\ c_phase' = [c_phase EXCEPT ![p] = "loadIPs"]
    /\ c_videos' = [c_videos EXCEPT ![p] = C_loadVideos(db_videos)]
    /\ c_base' = [c_base EXCEPT ![p] = [v \in DbVideoIds |-> ViewsOf(db_videos, v)]]
    /\ c_resp' = NoResp
    /\ UNCHANGED <<dbvars, c_viewedIPs, c_inflight, c_loaded, c_called,
                   c_crashes, c_clean, c_accepted>>
    /\ UNCHANGED notC

\* loadData(): const dbViewedIPs = await ViewedIP.find(); viewedIPs = ...
\* and then app.listen
C_LoadIPs(p) ==
    /\ c_phase[p] = "loadIPs"
    /\ c_phase' = [c_phase EXCEPT ![p] = "serving"]
    /\ c_viewedIPs' = [c_viewedIPs EXCEPT ![p] = C_loadViewedIPs(db_viewed)]
    /\ c_loaded' = [c_loaded EXCEPT ![p] =
                       [v \in DbVideoIds |-> DbReceiptsOf(db_viewed, v)]]
    /\ c_called' = [c_called EXCEPT ![p] = [v \in DbVideoIds |-> {}]]
    /\ c_resp' = OpResp("load", 0, p, "")
    /\ UNCHANGED <<dbvars, c_videos, c_inflight, c_base, c_crashes, c_clean,
                   c_accepted>>
    /\ UNCHANGED notC

\* loadData(): Video.find() or ViewedIP.find() rejects; loadData() rethrows
\* and .catch only logs: app.listen is never called
C_LoadFail(p) ==
    /\ c_phase[p] \in {"loadVideos", "loadIPs"}
    /\ db_faults < MaxFaults
    /\ db_faults' = db_faults + 1
    /\ c_phase' = [c_phase EXCEPT ![p] = "failed"]
    /\ c_resp' = OpResp("load", 500, p, "")
    /\ UNCHANGED <<db_videos, db_viewed, c_videos, c_viewedIPs, c_inflight,
                   c_base, c_loaded, c_called, c_crashes, c_clean, c_accepted>>
    /\ UNCHANGED notC

\* every process has run loadData() against the initial store
CInit ==
    /\ c_phase = [p \in Procs |-> "serving"]
    /\ c_videos = [p \in Procs |-> C_loadVideos(db_videos)]
    /\ c_viewedIPs = [p \in Procs |-> <<>>]
    /\ c_inflight = EmptyBag
    /\ c_resp = NoResp
    /\ c_base = [p \in Procs |-> [v \in DbVideoIds |-> 0]]
    /\ c_loaded = [p \in Procs |-> [v \in DbVideoIds |-> {}]]
    /\ c_called = [p \in Procs |-> [v \in DbVideoIds |-> {}]]
    /\ c_crashes = 0
    /\ c_clean = TRUE
    /\ c_accepted = [p \in Procs |-> FALSE]

CNextOf(ps, clients) ==
    \/ \E p \in ps, v \in DbVideoIds, c \in clients : C_ViewStart(p, v, c)
    \/ \E r \in BagToSet(c_inflight), ok \in BOOLEAN : C_UpdateOneDone(r, ok)
    \/ \E r \in BagToSet(c_inflight), ok \in BOOLEAN : C_CreateDone(r, ok)
    \/ \E p \in ps : C_Crash(p)
    \/ \E p \in ps : C_LoadVideos(p)
    \/ \E p \in ps : C_LoadIPs(p)

\* one server process
CNext1 == CNextOf({"A"}, ClientIPs)
\* two server processes on one store, serving one client
CNext2 == CNextOf(Procs, {"ip1"})

\* line 277: newViews === undefined || isNaN(parseInt(newViews))
C_SetViewsRejects(x) == x.kind = "undefined" \/ ParseIntIsNaN(x)

\* if (!videos[id]) videos[id] = { ..., loading: false }
\* followed by videos[id].views = parseInt(newViews)
C_SetViewsIn(videos, v, n) ==
    IF v \in DOMAIN videos
    THEN [videos EXCEPT ![v].views = n]
    ELSE Put(videos, v, [views |-> n, uploadTime |-> now,
                         title |-> VideoTitle(v), loading |-> FALSE])

\* Video.updateOne({ videoId: id }, { views }, { upsert: true })
DbUpsertViews(videos, v, n) ==
    IF v \in DOMAIN videos
    THEN [videos EXCEPT ![v].views = n]
    ELSE Put(videos, v, DbInserted(n))

\* POST /admin/videos/:id/set-views, from the request to the await
C_SetViewsStart(p, v, x) ==
    /\ C_Listens(c_phase[p])
    /\ c_accepted' = [c_accepted EXCEPT ![p] = TRUE]
    /\ IF C_SetViewsRejects(x)
       THEN /\ c_resp' = OpResp("set-views", 400, p, v)
            /\ UNCHANGED <<c_videos, c_inflight>>
       ELSE /\ BagCardinality(c_inflight) < MaxInFlight
            /\ c_videos' = [c_videos EXCEPT ![p] = C_SetViewsIn(@, v, ParseInt(x))]
            /\ c_inflight' = c_inflight (+)
                   One([Req(p, v, "", "setViews") EXCEPT !.val = ParseInt(x)])
            /\ c_resp' = NoResp
    /\ UNCHANGED <<dbvars, c_phase, c_viewedIPs, c_base, c_loaded, c_called,
                   c_crashes, c_clean>>
    /\ UNCHANGED notC

\* await Video.updateOne(..., { upsert: true }) settles.  The handler has no
\* try block: when the operation rejects, no response is sent.
C_SetViewsDone(r, ok) ==
    /\ BagIn(r, c_inflight) /\ r.pc = "setViews"
    /\ c_inflight' = c_inflight (-) One(r)
    /\ IF ok
       THEN /\ db_videos' = DbUpsertViews(db_videos, r.vid, r.val)
            /\ c_resp' = [OpResp("set-views", 200, r.proc, r.vid) EXCEPT
                             !.views = ViewsOf(c_videos[r.proc], r.vid)]
            /\ UNCHANGED <<db_faults, c_clean>>
       ELSE /\ db_faults < MaxFaults
            /\ db_faults' = db_faults + 1
            /\ c_clean' = FALSE
            /\ c_resp' = [OpResp("set-views", 0, r.proc, r.vid) EXCEPT
                             !.err = "unhandled"]
            /\ UNCHANGED db_videos
    /\ UNCHANGED <<db_viewed, c_phase, c_videos, c_viewedIPs, c_base, c_loaded,
                   c_called, c_crashes, c_accepted>>
    /\ UNCHANGED notC

\* one server process in one lifetime, with the read and set-views routes:
\* views from one client, set-views on the item without an Item Record
CAdminNext ==
    \/ \E v \in DbVideoIds, c \in {"ip1"} : C_ViewStart("A", v, c)
    \/ \E r \in BagToSet(c_inflight), ok \in BOOLEAN : C_UpdateOneDone(r, ok)
    \/ \E r \in BagToSet(c_inflight), ok \in BOOLEAN : C_CreateDone(r, ok)
    \/ \E v \in DbVideoIds : C_GetState("A", v)
    \/ \E v \in {"7"}, x \in ViewsInputs : C_SetViewsStart("A", v, x)
    \/ \E r \in BagToSet(c_inflight), ok \in BOOLEAN : C_SetViewsDone(r, ok)

\* one server process whose loadData() may fail, with the read route
CStartNext ==
    \/ CNext1
    \/ \E v \in DbVideoIds : C_GetState("A", v)
    \/ C_LoadFail("A")


(***************************************************************************)
(* src/unnamed/part_003: the cached server whose app.listen does not wait  *)
(* for loadData().  Its view and read handlers (lines 180-225) are, line   *)
(* for line, those of part_001 (lines 108-153); it runs as process "A".    *)
(***************************************************************************)
\* loadData(), lines 110-123: videos = {}; videoDocs.forEach(...)
P3_loadVideos(dbVideos) ==
    [v \in DOMAIN dbVideos |->
        [views |-> dbVideos[v].views, uploadTime |-> dbVideos[v].uploadTime,
         title |-> dbVideos[v].title, loading |-> dbVideos[v].loading]]

\* loadData(), lines 152-157: viewedIPs = {}; ipDocs.forEach(...)
P3_loadViewedIPs(dbViewed) ==
    [v \in DbItemsWithReceipts(dbViewed) |-> JsSet(DbReceiptsOf(dbViewed, v))]

\* the titles of defaultVideos
P3_DefaultTitle(v) ==
    IF v = "1" THEN "Blanx an E-commerce Website" ELSE "WatchNest a Movie Website"

\* the ids of defaultVideos, in the order of the for loop of line 143
P3_DefaultId(phase) == IF phase = "upsert1" THEN "1" ELSE "2"

\* Video.updateOne({ videoId }, { $setOnInsert: defaultVideo }, { upsert: true })
DbUpsertDefault(videos, v) ==
    IF v \in DOMAIN videos THEN videos
    ELSE Put(videos, v, DbDoc(0, now, P3_DefaultTitle(v)))

\* whether replacing the table old by new drops or changes an entry of old
Discards(old, new) == \E v \in DOMAIN old : v \notin DOMAIN new \/ new[v] # old[v]

\* POST /videos/:id/view and GET /videos/:id : app.listen (line 385) has
\* been called whatever loadData() is doing
P3_ViewStart(v, c) == C_View("A", v, c)
P3_GetState(v) == C_Get("A", v)

\* loadData(): const videoDocs = await Video.find(); videos = {}; ...
P3_LoadVideos ==
    /\ c_phase["A"] = "loadVideos"
    /\ c_phase' = [c_phase EXCEPT !["A"] = "upsert1"]
    /\ c_videos' = [c_videos EXCEPT !["A"] = P3_loadVideos(db_videos)]
    /\ c_base' = [c_base EXCEPT !["A"] = [v \in DbVideoIds |-> ViewsOf(db_videos, v)]]
    /\ c_resp' = [OpResp("loadVideos", 0, "A", "") EXCEPT
                     !.purged = Discards(c_videos["A"], P3_loadVideos(db_videos))]
    /\ UNCHANGED <<dbvars, c_viewedIPs, c_inflight, c_loaded, c_called,
                   c_crashes, c_clean, c_accepted>>
    /\ UNCHANGED notC

\* loadData(): await Video.updateOne(..., { upsert: true }) for a default
P3_UpsertDefault ==
    /\ c_phase["A"] \in {"upsert1", "upsert2"}
    /\ c_phase' = [c_phase EXCEPT !["A"] =
                      IF @ = "upsert1" THEN "upsert2" ELSE "loadIPs"]
    /\ db_videos' = DbUpsertDefault(db_videos, P3_DefaultId(c_phase["A"]))
    /\ c_resp' = NoResp
    /\ UNCHANGED <<db_viewed, db_faults, c_videos, c_viewedIPs, c_inflight,
                   c_base, c_loaded, c_called, c_crashes, c_clean, c_accepted>>
    /\ UNCHANGED notC

\* loadData(): const ipDocs = await ViewedIP.find(); viewedIPs = {}; ...
P3_LoadIPs ==
    /\ c_phase["A"] = "loadIPs"
    /\ c_phase' = [c_phase EXCEPT !["A"] = "serving"]
    /\ c_viewedIPs' = [c_viewedIPs EXCEPT !["A"] = P3_loadViewedIPs(db_viewed)]
    /\ c_loaded' = [c_loaded EXCEPT !["A"] =
                       [v \in DbVideoIds |-> DbReceiptsOf(db_viewed, v)]]
    /\ c_called' = [c_called EXCEPT !["A"] = [v \in DbVideoIds |-> {}]]
    /\ c_resp' = [OpResp("load", 0, "A", "") EXCEPT
                     !.purged = Discards(c_viewedIPs["A"], P3_loadViewedIPs(db_viewed))]
    /\ UNCHANGED <<dbvars, c_videos, c_inflight, c_base, c_crashes, c_clean,
                   c_accepted>>
    /\ UNCHANGED notC

\* loadData(): a store operation rejects; loadData() rethrows and .catch
\* (line 380) logs; the tables stay as they are
P3_LoadFail ==
    /\ c_phase["A"] \in {"loadVideos", "upsert1", "upsert2", "loadIPs"}
    /\ db_faults < MaxFaults
    /\ db_faults' = db_faults + 1
    /\ c_phase' = [c_phase EXCEPT !["A"] = "failed"]
    /\ c_resp' = OpResp("load", 500, "A", "")
    /\ UNCHANGED <<db_videos, db_viewed, c_videos, c_viewedIPs, c_inflight,
                   c_base, c_loaded, c_called, c_crashes, c_clean, c_accepted>>
    /\ UNCHANGED notC

\* one client: requests that arrive while loadData() is pending multiply
\* the states
P3Next ==
    \/ \E v \in DbVideoIds, c \in {"ip1"} : P3_ViewStart(v, c)
    \/ \E v \in DbVideoIds : P3_GetState(v)
    \/ \E r \in BagToSet(c_inflight), ok \in BOOLEAN : C_UpdateOneDone(r, ok)
    \/ \E r \in BagToSet(c_inflight), ok \in BOOLEAN : C_CreateDone(r, ok)
    \/ C_Crash("A")
    \/ P3_LoadVideos
    \/ P3_UpsertDefault
    \/ P3_LoadIPs
    \/ P3_LoadFail

(***************************************************************************)
(* MongoDB-only server: src/server.js lines 309-619                        *)
(***************************************************************************)
\* ViewedIP.exists({ videoId, ip: clientIP })
DbExists(viewed, v, c) == viewed[<<v, c>>] > 0

\* Video.findOneAndUpdate({ videoId }, { $inc: { views: 1 } },
\*                        { new: true, upsert: true })
DbFindOneAndUpdateInc(videos, v) ==
    IF v \in DOMAIN videos
    THEN [videos EXCEPT ![v].views = @ + 1]
    ELSE Put(videos, v, DbInserted(1))

\* POST /videos/:id/view up to  await ViewedIP.exists(...)
M_ViewStart(v, c) ==
    /\ BagCardinality(m_inflight) < MaxInFlight
    /\ m_inflight' = m_inflight (+) One(Req("", v, c, "exists"))
    /\ m_called' = [m_called EXCEPT ![v] = @ \cup {c}]
    /\ m_resp' = NoResp
    /\ UNCHANGED dbvars
    /\ UNCHANGED notM

\* a store operation of r rejects: catch (error) { res.status(500)... }
M_Fail(r, err) ==
    /\ m_inflight' = m_inflight (-) One(r)
    /\ m_resp' = ViewError("", r.vid, r.ip, err, FALSE, FALSE)
    /\ UNCHANGED <<db_videos, db_viewed, m_called>>

M_Fault(r) ==
    /\ db_faults < MaxFaults
    /\ db_faults' = db_faults + 1
    /\ M_Fail(r, "fault")

M_Goto(r, pc) == (m_inflight (-) One(r)) (+) One([r EXCEPT !.pc = pc])

\* await ViewedIP.exists(...) settles
M_ExistsDone(r, ok) ==
    /\ BagIn(r, m_inflight) /\ r.pc = "exists"
    /\ IF ~ok THEN M_Fault(r)
       ELSE /\ m_inflight' = M_Goto(r, IF DbExists(db_viewed, r.vid, r.ip)
                                       THEN "findOne" ELSE "create")
            /\ m_resp' = NoResp
            /\ UNCHANGED <<dbvars, m_called>>
    /\ UNCHANGED notM

\* await Video.findOne({ videoId }) settles: the already-viewed response
M_FindOneDone(r, ok) ==
    /\ BagIn(r, m_inflight) /\ r.pc = "findOne"
    /\ IF ~ok THEN M_Fault(r)
       ELSE /\ m_inflight' = m_inflight (-) One(r)
            /\ m_resp' = ViewResp("", r.vid, r.ip, ViewsOf(db_videos, r.vid),
                                  TRUE, FALSE, FALSE)
            /\ UNCHANGED <<dbvars, m_called>>
    /\ UNCHANGED notM

\* await ViewedIP.create({ videoId, ip: clientIP }) settles
M_CreateDone(r, ok) ==
    /\ BagIn(r, m_inflight) /\ r.pc = "create"
    /\ IF ~ok THEN M_Fault(r)
       ELSE IF ~DbUniqueIndexOk(db_viewed, r.vid, r.ip)
       THEN /\ M_Fail(r, "E11000")
            /\ UNCHANGED db_faults
       ELSE /\ db_viewed' = DbInsertViewedIP(db_viewed, r.vid, r.ip)
            /\ m_inflight' = M_Goto(r, "findOneAndUpdate")
            /\ m_resp' = NoResp
            /\ UNCHANGED <<db_videos, db_faults, m_called>>
    /\ UNCHANGED notM

\* await Video.findOneAndUpdate(...) settles: the counted response
M_FindOneAndUpdateDone(r, ok) ==
    /\ BagIn(r, m_inflight) /\ r.pc = "findOneAndUpdate"
    /\ IF ~ok THEN M_Fault(r)
       ELSE LET vs == DbFindOneAndUpdateInc(db_videos, r.vid)
            IN  /\ db_videos' = vs
                /\ m_inflight' = m_inflight (-) One(r)
                /\ m_resp' = ViewResp("", r.vid, r.ip, vs[r.vid].views, FALSE,
                                      TRUE, r.vid \notin DOMAIN db_videos)
                /\ UNCHANGED <<db_viewed, db_faults, m_called>>
    /\ UNCHANGED notM

\* Video.findOneAndDelete({ videoId }): the Video collection afterwards
DbFindOneAndDelete(videos, v) == Del(videos, v)

\* DELETE /admin/videos/:id : the handler's only store operation is
\* Video.findOneAndDelete; it touches no ViewedIP document
M_Delete(v, ok) ==
    /\ IF ~ok
       THEN /\ db_faults < MaxFaults
            /\ db_faults' = db_faults + 1
            /\ m_resp' = OpResp("delete", 500, "", v)
            /\ UNCHANGED db_videos
       ELSE IF v \notin DOMAIN db_videos
       THEN /\ m_resp' = OpResp("delete", 404, "", v)
            /\ UNCHANGED <<db_videos, db_faults>>
       ELSE /\ db_videos' = DbFindOneAndDelete(db_videos, v)
            /\ m_resp' = OpResp("delete", 200, "", v)
            /\ UNCHANGED db_faults
    /\ UNCHANGED <<db_viewed, m_inflight, m_called>>
    /\ UNCHANGED notM

MInit ==
    /\ m_inflight = EmptyBag
    /\ m_resp = NoResp
    /\ m_called = [v \in DbVideoIds |-> {}]

MNext ==
    \/ \E v \in DbVideoIds, c \in ClientIPs : M_ViewStart(v, c)
    \/ \E r \in BagToSet(m_inflight), ok \in BOOLEAN : M_ExistsDone(r, ok)
    \/ \E r \in BagToSet(m_inflight), ok \in BOOLEAN : M_FindOneDone(r, ok)
    \/ \E r \in BagToSet(m_inflight), ok \in BOOLEAN : M_CreateDone(r, ok)
    \/ \E r \in BagToSet(m_inflight), ok \in BOOLEAN : M_FindOneAndUpdateDone(r, ok)

\* the view route together with the admin delete route
MDelNext ==
    \/ MNext
    \/ \E v \in DbVideoIds, ok \in BOOLEAN : M_Delete(v, ok)

(***************************************************************************)
(* src/unnamed/part_002: videos in memory, viewedIPs.json on disk          *)
(***************************************************************************)
\* const videos = { 1: { views: 142, ... }, 2: { views: 87, ... } } : the
\* upload times of the literal are dates of 2023, not after the clock's origin
P2_SampleVideos ==
    [v \in DOMAIN F_SampleVideos |-> [F_SampleVideos[v] EXCEPT !.uploadTime = 0]]

NoFile == [exists |-> FALSE, viewedIPs |-> <<>>]

\* fs.writeFileSync('viewedIPs.json', JSON.stringify(viewedIPs))
P2_writeFile(viewedIPs) ==
    [exists |-> TRUE, viewedIPs |-> JsonRoundTrip(<<>>, viewedIPs).viewedIPs]

\* if (fs.existsSync('viewedIPs.json')) Object.assign(viewedIPs, JSON.parse(data))
P2_loadFile(file) == IF file.exists THEN file.viewedIPs ELSE <<>>

\* the condition of line 67 and the response field of line 75
P2_FirstSeen(viewedIPs, v, c) == ~SetHas(viewedIPs[v], c)
P2_AlreadyViewed(viewedIPs, v, c) == SetHas(viewedIPs[v], c)

\* what DELETE /admin/videos/:id removes from memory: delete videos[videoId]
P2_DeleteFrom(mem, v) ==
    [videos |-> Del(mem.videos, v), viewedIPs |-> mem.viewedIPs]

\* POST /videos/:id/view
P2_RecordView(v, c) ==
    /\ UNCHANGED notP2
    /\ LET vs1     == F_InitVideo(p2_videos, v)
           ips1    == F_InitIPs(p2_viewedIPs, v)
           created == v \notin DOMAIN p2_videos
       IN  /\ IF ~HasIsFunction(ips1[v])
              THEN /\ p2_videos' = vs1
                   /\ p2_viewedIPs' = ips1
                   /\ p2_resp' = ViewError("", v, c, "TypeError", FALSE, created)
                   /\ UNCHANGED p2_file
              ELSE IF P2_FirstSeen(ips1, v, c)
              THEN LET vs2  == [vs1 EXCEPT ![v].views = @ + 1]
                       ips2 == [ips1 EXCEPT ![v] = SetAdd(@, c)]
                   IN  /\ p2_videos' = vs2
                       /\ p2_viewedIPs' = ips2
                       /\ p2_file' = P2_writeFile(ips2)
                       /\ p2_resp' = ViewResp("", v, c, vs2[v].views,
                                              P2_AlreadyViewed(ips2, v, c), TRUE, created)
              ELSE /\ p2_videos' = vs1
                   /\ p2_viewedIPs' = ips1
                   /\ p2_resp' = ViewResp("", v, c, vs1[v].views,
                                          P2_AlreadyViewed(ips1, v, c), FALSE, created)
                   /\ UNCHANGED p2_file
           /\ UNCHANGED p2_deleted

\* DELETE /admin/videos/:id
P2_Delete(v) ==
    /\ UNCHANGED notP2
    /\ IF v \notin DOMAIN p2_videos
       THEN /\ p2_resp' = OpResp("delete", 404, "", v)
            /\ UNCHANGED <<p2_videos, p2_viewedIPs, p2_file, p2_deleted>>
       ELSE LET mem == P2_DeleteFrom([videos |-> p2_videos,
                                      viewedIPs |-> p2_viewedIPs], v)
            IN  /\ p2_videos' = mem.videos
                /\ p2_viewedIPs' = mem.viewedIPs
                /\ p2_deleted' = p2_deleted \cup {v}
                /\ p2_resp' = OpResp("delete", 200, "", v)
                /\ UNCHANGED p2_file

\* the process stops and starts again: videos is the literal of line 12
P2_Restart ==
    /\ p2_videos' = P2_SampleVideos
    /\ p2_viewedIPs' = P2_loadFile(p2_file)
    /\ p2_deleted' = {}
    /\ p2_resp' = OpResp("restart", 0, "", "")
    /\ UNCHANGED p2_file
    /\ UNCHANGED notP2

\* first start, no viewedIPs.json
P2Init ==
    /\ p2_videos = P2_SampleVideos
    /\ p2_viewedIPs = P2_loadFile(NoFile)
    /\ p2_file = NoFile
    /\ p2_resp = NoResp
    /\ p2_deleted = {}

P2Next ==
    \/ \E v \in VideoIds, c \in ClientIPs : P2_RecordView(v, c)
    \/ \E v \in VideoIds : P2_Delete(v)
    \/ P2_Restart

(***************************************************************************)
(* src/unnamed/part_004: the file-backed server with a periodic save       *)
(***************************************************************************)
\* new Date().toISOString(): a record of part_004 holds as uploadTime
\* whatever set-upload-time was given, so the field is kept as a TimeInput
P4_Now == TimeInput("date", now)

\* the sample data loadData() installs when no data file exists
P4_SampleVideos ==
    [v \in {"1", "2"} |-> [views |-> IF v = "1" THEN SeedViews1 ELSE SeedViews2,
                           uploadTime |-> P4_Now]]

\* a save that stores the sample data instead of the item table
P4_saveSamples(videos, viewedIPs) == JsonRoundTrip(P4_SampleVideos, viewedIPs)

\* saveData(): the file as a later loadData() will read it
P4_saveData(videos, viewedIPs) == JsonRoundTrip(videos, viewedIPs)

\* loadData() when the data file exists
P4_loadData(file) == [videos |-> file.videos, viewedIPs |-> file.viewedIPs]

\* if (!videos[videoId]) videos[videoId] = { views: 0, uploadTime: now }
P4_InitVideo(videos, v) ==
    IF v \in DOMAIN videos THEN videos
    ELSE Put(videos, v, [views |-> 0, uploadTime |-> P4_Now])

\* the condition of line 108 and the response field of line 115
P4_FirstSeen(viewedIPs, v, c) == ~SetHas(viewedIPs[v], c)
P4_AlreadyViewed(viewedIPs, v, c) == SetHas(viewedIPs[v], c)

\* POST /videos/:id/view : the handler does not call saveData()
P4_RecordView(v, c) ==
    /\ UNCHANGED notP4
    /\ UNCHANGED p4_file
    /\ LET vs1     == P4_InitVideo(p4_videos, v)
           ips1    == F_InitIPs(p4_viewedIPs, v)
           created == v \notin DOMAIN p4_videos
       IN  IF ~HasIsFunction(ips1[v])
           THEN /\ p4_videos' = vs1
                /\ p4_viewedIPs' = ips1
                /\ p4_resp' = ViewError("", v, c, "TypeError", FALSE, created)
           ELSE IF P4_FirstSeen(ips1, v, c)
           THEN LET vs2  == [vs1 EXCEPT ![v].views = @ + 1]
                    ips2 == [ips1 EXCEPT ![v] = SetAdd(@, c)]
                IN  /\ p4_videos' = vs2
                    /\ p4_viewedIPs' = ips2
                    /\ p4_resp' = ViewResp("", v, c, vs2[v].views,
                                           P4_AlreadyViewed(ips2, v, c), TRUE, created)
           ELSE /\ p4_videos' = vs1
                /\ p4_viewedIPs' = ips1
                /\ p4_resp' = ViewResp("", v, c, vs1[v].views,
                                       P4_AlreadyViewed(ips1, v, c), FALSE, created)

\* GET /videos/:id : videos[videoId] || { views: 0, uploadTime: now }
P4_GetState(v) ==
    /\ p4_resp' = [OpResp("get", 200, "", v) EXCEPT !.views = ViewsOf(p4_videos, v)]
    /\ UNCHANGED <<p4_videos, p4_viewedIPs, p4_file>>
    /\ UNCHANGED notP4

\* POST /admin/videos/:id/set-upload-time : newTime is stored as it came
P4_SetUploadTime(v, t) ==
    /\ LET vs == Put(p4_videos, v, [views |-> ViewsOf(p4_videos, v), uploadTime |-> t])
       IN  /\ p4_videos' = vs
           /\ p4_file' = P4_saveData(vs, p4_viewedIPs)
           /\ p4_resp' = [OpResp("set-upload-time", 200, "", v) EXCEPT
                            !.created = v \notin DOMAIN p4_videos]
    /\ UNCHANGED p4_viewedIPs
    /\ UNCHANGED notP4

\* setInterval(saveData, 5 * 60 * 1000): the timer fires
P4_AutoSave ==
    /\ p4_file' = P4_saveData(p4_videos, p4_viewedIPs)
    /\ p4_resp' = OpResp("save", 0, "", "")
    /\ UNCHANGED <<p4_videos, p4_viewedIPs>>
    /\ UNCHANGED notP4

\* The process stops and starts again.  On SIGINT (graceful) the handler
\* calls saveData() before exiting; a crash or a SIGTERM does not.  At the
\* start loadData() reads the file.
P4_Restart(graceful) ==
    /\ UNCHANGED notP4
    /\ LET file   == IF graceful THEN P4_saveData(p4_videos, p4_viewedIPs)
                     ELSE p4_file
           loaded == P4_loadData(file)
       IN  /\ p4_file' = file
           /\ p4_videos' = loaded.videos
           /\ p4_viewedIPs' = loaded.viewedIPs
           /\ p4_resp' = OpResp("restart", 0, "", "")

\* first start, no data file: loadData() installs the samples and saves
P4Init ==
    /\ p4_videos = P4_SampleVideos
    /\ p4_viewedIPs = <<>>
    /\ p4_file = P4_saveData(P4_SampleVideos, <<>>)
    /\ p4_resp = NoResp

P4Next ==
    \/ \E v \in AdminVideoIds, c \in ClientIPs : P4_RecordView(v, c)
    \/ \E v \in AdminVideoIds : P4_GetState(v)
    \/ P4_AutoSave
    \/ \E g \in BOOLEAN : P4_Restart(g)

(***************************************************************************)
(* src/unnamed/part_000: the admin controller on the Video collection      *)
(***************************************************************************)
NoBulk == [active |-> FALSE, rest |-> <<>>, ok |-> 0, failed |-> 0]

\* line 71: !id || !newTime || isNaN(new Date(newTime).getTime())
K_EntryRejected(u) == u.id = "" \/ u.newTime.kind # "date"

\* lines 76-89: findOne, then a new Video with uploadTime new Date(newTime)
\* or video.uploadTime = new Date(newTime), then save()
DbSaveUploadTime(videos, v, t) ==
    IF v \in DOMAIN videos
    THEN [videos EXCEPT ![v].uploadTime = t]
    ELSE Put(videos, v, DbDoc(0, t, VideoTitle(v)))

\* exports.bulkUpdateTimes, from the request to the loop
K_BulkStart(isArray, updates) ==
    /\ ~k_bulk.active
    /\ IF ~isArray
       THEN /\ updates = <<>>
            /\ k_resp' = OpResp("bulk-update-times", 400, "", "")
            /\ UNCHANGED k_bulk
       ELSE /\ k_bulk' = [active |-> TRUE, rest |-> updates, ok |-> 0, failed |-> 0]
            /\ k_resp' = NoResp
    /\ UNCHANGED dbvars
    /\ UNCHANGED notK

\* one turn of the for loop: a rejected entry is reported and skipped; an
\* accepted one is looked up and saved (no other writer of the collection
\* runs beside this handler, so the two awaits are one step); a store
\* failure ends the handler in the catch block
K_BulkEntry(stored) ==
    /\ k_bulk.active
    /\ k_bulk.rest # <<>>
    /\ LET u == Head(k_bulk.rest)
       IN  IF K_EntryRejected(u)
           THEN /\ stored
                /\ k_bulk' = [k_bulk EXCEPT !.rest = Tail(@), !.failed = @ + 1]
                /\ k_resp' = NoResp
                /\ UNCHANGED dbvars
           ELSE IF stored
           THEN /\ db_videos' = DbSaveUploadTime(db_videos, u.id, u.newTime.t)
                /\ k_bulk' = [k_bulk EXCEPT !.rest = Tail(@), !.ok = @ + 1]
                /\ k_resp' = [NoResp EXCEPT !.vid = u.id]
                /\ UNCHANGED <<db_viewed, db_faults>>
           ELSE /\ db_faults < MaxFaults
                /\ db_faults' = db_faults + 1
                /\ k_bulk' = NoBulk
                /\ k_resp' = OpResp("bulk-update-times", 500, "", "")
                /\ UNCHANGED <<db_videos, db_viewed>>
    /\ UNCHANGED notK

\* res.json({ success: true, results })
K_BulkDone ==
    /\ k_bulk.active
    /\ k_bulk.rest = <<>>
    /\ k_bulk' = NoBulk
    /\ k_resp' = [OpResp("bulk-update-times", 200, "", "") EXCEPT
                     !.updatedCount = k_bulk.ok, !.errorCount = k_bulk.failed]
    /\ UNCHANGED dbvars
    /\ UNCHANGED notK

KInit ==
    /\ k_bulk = NoBulk
    /\ k_resp = NoResp

\* the upload-time routes of part_004 and of the controller, side by side,
\* while time passes
LateTimesNext ==
    \/ \E t \in TimeInputs : P4_SetUploadTime("42", t)
    \/ \E updates \in BulkInputs : K_BulkStart(TRUE, updates)
    \/ K_BulkStart(FALSE, <<>>)
    \/ \E stored \in BOOLEAN : K_BulkEntry(stored)
    \/ K_BulkDone
    \/ Tick

\* the view and read routes of the file-backed server and of one process of
\* the cached server, side by side
ReadNext ==
    \/ \E v \in AdminVideoIds, c \in {"ip1"} : F_RecordView(v, c)
    \/ \E v \in AdminVideoIds : F_GetState(v)
    \/ \E v \in DbVideoIds : C_ViewStart("A", v, "ip1")
    \/ \E r \in BagToSet(c_inflight), ok \in BOOLEAN : C_UpdateOneDone(r, ok)
    \/ \E r \in BagToSet(c_inflight), ok \in BOOLEAN : C_CreateDone(r, ok)
    \/ \E v \in DbVideoIds : C_GetState("A", v)
    \/ C_Crash("A")
    \/ C_LoadVideos("A")
    \/ C_LoadIPs("A")

\* recordView of two processes of the cached server and of the MongoDB-only
\* server, all on one store, for one item and one client, with a store that
\* does not fail
StoreNext ==
    \/ \E p \in Procs : C_ViewStart(p, "1", "ip1")
    \/ \E r \in BagToSet(c_inflight) : C_UpdateOneDone(r, TRUE)
    \/ \E r \in BagToSet(c_inflight) : C_CreateDone(r, TRUE)
    \/ M_ViewStart("1", "ip1")
    \/ \E r \in BagToSet(m_inflight) : M_ExistsDone(r, TRUE)
    \/ \E r \in BagToSet(m_inflight) : M_FindOneDone(r, TRUE)
    \/ \E r \in BagToSet(m_inflight) : M_CreateDone(r, TRUE)
    \/ \E r \in BagToSet(m_inflight) : M_FindOneAndUpdateDone(r, TRUE)

\* one process of the cached server on a store that was empty when it
\* started: every item is created lazily by its first recordView
LazyNext ==
    \/ \E v \in DbVideoIds, c \in ClientIPs : C_ViewStart("A", v, c)
    \/ \E r \in BagToSet(c_inflight), ok \in BOOLEAN : C_UpdateOneDone(r, ok)
    \/ \E r \in BagToSet(c_inflight), ok \in BOOLEAN : C_CreateDone(r, ok)

\* DELETE /admin/videos/:id of the cached server, from the request to the
\* first await: 404 for an item that is not in memory, otherwise both
\* in-memory entries are deleted before the store is asked to delete
C_DeleteStart(p, v) ==
    /\ C_Listens(c_phase[p])
    /\ c_accepted' = [c_accepted EXCEPT ![p] = TRUE]
    /\ IF v \notin DOMAIN c_videos[p]
       THEN /\ c_resp' = OpResp("delete", 404, p, v)
            /\ UNCHANGED <<c_videos, c_viewedIPs, c_inflight>>
       ELSE /\ BagCardinality(c_inflight) < MaxInFlight
            /\ c_videos' = [c_videos EXCEPT ![p] = Del(@, v)]
            /\ c_viewedIPs' = [c_viewedIPs EXCEPT ![p] = Del(@, v)]
            /\ c_inflight' = c_inflight (+) One(Req(p, v, "", "deleteOne"))
            /\ c_resp' = NoResp
    /\ UNCHANGED <<dbvars, c_phase, c_base, c_loaded, c_called, c_crashes,
                   c_clean>>
    /\ UNCHANGED notC

\* await Video.deleteOne({ videoId: id }) settles
C_DeleteOneDone(r) ==
    /\ BagIn(r, c_inflight) /\ r.pc = "deleteOne"
    /\ db_videos' = Del(db_videos, r.vid)
    /\ c_inflight' = (c_inflight (-) One(r)) (+) One([r EXCEPT !.pc = "deleteMany"])
    /\ c_resp' = NoResp
    /\ UNCHANGED <<db_viewed, db_faults, c_phase, c_videos, c_viewedIPs, c_base,
                   c_loaded, c_called, c_crashes, c_clean, c_accepted>>
    /\ UNCHANGED notC

\* await ViewedIP.deleteMany({ videoId: id }) settles, and the handler
\* answers { success: true }
C_DeleteManyDone(r) ==
    /\ BagIn(r, c_inflight) /\ r.pc = "deleteMany"
    /\ db_viewed' = [pr \in Pairs |-> IF pr[1] = r.vid THEN 0 ELSE db_viewed[pr]]
    /\ c_inflight' = c_inflight (-) One(r)
    /\ c_resp' = OpResp("delete", 200, r.proc, r.vid)
    /\ UNCHANGED <<db_videos, db_faults, c_phase, c_videos, c_viewedIPs, c_base,
                   c_loaded, c_called, c_crashes, c_clean, c_accepted>>
    /\ UNCHANGED notC

\* one process of the cached server with the view and delete routes for
\* the item the store holds, on a store that does not fail
CDelNext ==
    \/ \E c \in ClientIPs : C_ViewStart("A", "1", c)
    \/ \E r \in BagToSet(c_inflight) : C_UpdateOneDone(r, TRUE)
    \/ \E r \in BagToSet(c_inflight) : C_CreateDone(r, TRUE)
    \/ C_DeleteStart("A", "1")
    \/ \E r \in BagToSet(c_inflight) : C_DeleteOneDone(r)
    \/ \E r \in BagToSet(c_inflight) : C_DeleteManyDone(r)

\* one process of the cached server with the view and set-views routes for
\* the item the store holds, on a store that does not fail: the store runs
\* the writes of different handlers in any order
CSetNext ==
    \/ \E c \in ClientIPs : C_ViewStart("A", "1", c)
    \/ \E r \in BagToSet(c_inflight) : C_UpdateOneDone(r, TRUE)
    \/ \E r \in BagToSet(c_inflight) : C_CreateDone(r, TRUE)
    \/ \E x \in ViewsInputs : C_SetViewsStart("A", "1", x)
    \/ \E r \in BagToSet(c_inflight) : C_SetViewsDone(r, TRUE)

\* part_004 while the process is not killed: it runs until the timer fires
\* or until SIGINT stops it, and is then started again
P4LiveNext ==
    \/ \E v \in AdminVideoIds, c \in ClientIPs : P4_RecordView(v, c)
    \/ \E v \in AdminVideoIds : P4_GetState(v)
    \/ P4_AutoSave
    \/ P4_Restart(TRUE)

\* the servers started against an empty store
InitEmpty ==
    /\ now = 0
    /\ FInit /\ DbInitEmpty /\ CInit /\ MInit /\ P2Init /\ P4Init /\ KInit

Init ==
    /\ now = 0
    /\ FInit /\ DbInit /\ CInit /\ MInit /\ P2Init /\ P4Init /\ KInit

SpecFile == Init /\ [][FNext]_vars
SpecFileFaults == Init /\ [][FFaultNext]_vars
SpecFileRequests == Init /\ [][FRequestNext]_vars
SpecFileTimes == Init /\ [][FTimesNext]_vars
SpecCached == Init /\ [][CNext1]_vars
SpecCached2 == Init /\ [][CNext2]_vars
SpecCachedAdmin == Init /\ [][CAdminNext]_vars
SpecCachedStart == Init /\ [][CStartNext]_vars
SpecP3 == Init /\ [][P3Next]_vars
SpecReads == Init /\ [][ReadNext]_vars
SpecMongo == Init /\ [][MNext]_vars
SpecMongoDel == Init /\ [][MDelNext]_vars
SpecStore == Init /\ [][StoreNext]_vars
SpecLazy == InitEmpty /\ [][LazyNext]_vars
SpecP2 == Init /\ [][P2Next]_vars
SpecP4 == Init /\ [][P4Next]_vars
SpecLateTimes == Init /\ [][LateTimesNext]_vars
SpecCachedDel == Init /\ [][CDelNext]_vars
SpecCachedSet == Init /\ [][CSetNext]_vars
\* setInterval(saveData, 5 * 60 * 1000): while the process runs, the timer
\* fires again and again
SpecP4Live == Init /\ [][P4LiveNext]_vars /\ WF_vars(P4_AutoSave)

(***************************************************************************)
(* Claims                                                                  *)
(***************************************************************************)
Members(viewedIPs, v) == IF v \in DOMAIN viewedIPs THEN viewedIPs[v].members ELSE {}

\* C1: a run of N >= 1 consecutive recordView calls for a pair that had not
\* been counted leaves the item's in-memory viewCount exactly 1 above its
\* value before the run (file-backed server).
C1_SequentialIdempotence ==
    (f_run.n >= 1 /\ f_run.fresh) =>
        /\ f_run.vid \in DOMAIN f_videos
        /\ f_videos[f_run.vid].views = f_run.base + 1

\* C2: the call that counts a view answers alreadyViewed = false (counted =
\* true), and a call that does not count answers alreadyViewed = true.
C2_CountedFlag ==
    (f_resp.op = "view" /\ f_resp.status = 200) =>
        (f_resp.alreadyViewed = ~f_resp.incremented)

\* C3: in one process of the cached server, whatever the interleaving of the
\* suspended handlers, an item's in-memory viewCount is its loaded value plus
\* the number of distinct clients that called recordView and had not been
\* counted, and every caller is in the Dedup Index: M calls by one client
\* add 1, not M.
C3_InProcessConcurrency ==
    \A p \in Procs, v \in DbVideoIds :
        c_phase[p] = "serving" =>
            /\ ViewsOf(c_videos[p], v) =
                   c_base[p][v] + Cardinality(c_called[p][v] \ c_loaded[p][v])
            /\ Members(c_viewedIPs[p], v) = c_loaded[p][v] \cup c_called[p][v]

\* a second call of a pair is answered while the first is still suspended
C3_Witness ==
    \E r \in BagToSet(c_inflight) :
        /\ c_resp.op = "view" /\ c_resp.status = 200 /\ ~c_resp.incremented
        /\ c_resp.proc = r.proc /\ c_resp.vid = r.vid /\ c_resp.ip = r.ip
        /\ ViewsOf(c_videos[r.proc], r.vid) = c_base[r.proc][r.vid] + 1

\* C4: in the MongoDB-only server, once every handler has finished and no
\* store operation has failed, each item's durable viewCount is the number
\* of distinct clients that called recordView for it and each such pair has
\* exactly one Receipt, however the handlers interleaved.
C4_StoreConcurrency ==
    (m_inflight = EmptyBag /\ db_faults = 0) =>
        \A v \in DbVideoIds :
            /\ ViewsOf(db_videos, v) = Cardinality(m_called[v])
            /\ \A c \in ClientIPs :
                   db_viewed[<<v, c>>] = IF c \in m_called[v] THEN 1 ELSE 0

\* two handlers of one pair both found no Receipt; the unique index refused
\* the second insert
C4_Witness ==
    /\ m_inflight = EmptyBag /\ db_faults = 0
    /\ m_resp.op = "view" /\ m_resp.err = "E11000"
    /\ ViewsOf(db_videos, m_resp.vid) = 1
    /\ db_viewed[<<m_resp.vid, m_resp.ip>>] = 1

\* C5: with two processes on one store, once every handler has finished
\* (none cut short), each Item Record's durable viewCount equals the number
\* of Receipts of the item, and no pair has two Receipts.
C5_MultiProcessBackstop ==
    (c_inflight = EmptyBag /\ c_clean) =>
        /\ \A v \in DOMAIN db_videos :
               db_videos[v].views = Cardinality(DbReceiptsOf(db_viewed, v))
        /\ \A pr \in Pairs : db_viewed[pr] <= 1

\* C6: when recordView answers 500 because a durable write failed, the pair
\* is not in the Dedup Index and the in-memory viewCount holds no increment
\* for it.
C6_RollbackOnFailure ==
    (c_resp.op = "view" /\ c_resp.status = 500) =>
        LET p == c_resp.proc
            v == c_resp.vid
        IN  /\ c_resp.ip \notin Members(c_viewedIPs[p], v)
            /\ ViewsOf(c_videos[p], v) =
                   c_base[p][v] + Cardinality(Members(c_viewedIPs[p], v) \ c_loaded[p][v])

\* C7: right after loadData(), when every earlier recordView call succeeded,
\* every item that has an Item Record or a Receipt is in the item table with
\* a viewCount equal to the number of its Receipts.
C7_ReloadConsistency ==
    (c_resp.op = "load" /\ c_clean) =>
        \A v \in DbVideoIds :
            (v \in DOMAIN db_videos \/ DbReceiptsOf(db_viewed, v) # {}) =>
                /\ v \in DOMAIN c_videos[c_resp.proc]
                /\ c_videos[c_resp.proc][v].views =
                       Cardinality(DbReceiptsOf(db_viewed, v))

\* C8: when recordView answers a counted view with success, no other handler
\* is suspended and no store operation has failed, the store holds the Item
\* Record with the in-memory viewCount, and the Receipt.
C8_WriteThrough ==
    (/\ c_resp.op = "view" /\ c_resp.status = 200 /\ c_resp.incremented
     /\ c_inflight = EmptyBag /\ db_faults = 0) =>
        /\ c_resp.vid \in DOMAIN db_videos
        /\ ViewsOf(db_videos, c_resp.vid) = ViewsOf(c_videos[c_resp.proc], c_resp.vid)
        /\ db_viewed[<<c_resp.vid, c_resp.ip>>] = 1

\* C9: after a restart of the file-backed server the Dedup Index holds, for
\* every item, exactly the clients counted before the restart.
C9_DedupSurvivesRestart ==
    f_resp.op = "restart" =>
        \A v \in VideoIds :
            /\ v \in DOMAIN f_viewedIPs => HasIsFunction(f_viewedIPs[v])
            /\ Members(f_viewedIPs, v) = f_counted[v]

\* C10: in part_002 a recordView that re-creates an item deleted earlier
\* counts: it answers viewCount 1.
C10_DeletionCascade ==
    (p2_resp.op = "view" /\ p2_resp.created /\ p2_resp.vid \in p2_deleted) =>
        /\ p2_resp.status = 200
        /\ p2_resp.incremented
        /\ p2_resp.views = 1

\* C11: in the MongoDB-only server, once DELETE /admin/videos/:id has
\* answered success and no view handler is suspended, the store holds no
\* Receipt of the deleted item (so that a client counted before the delete
\* is counted again afterwards).
C11_MongoDeletionCascade ==
    (m_resp.op = "delete" /\ m_resp.status = 200 /\ m_inflight = EmptyBag) =>
        DbReceiptsOf(db_viewed, m_resp.vid) = {}

\* C12: in the file-backed server every item that has a Dedup Index entry
\* has an Item Record, whatever requests were served.
C12_NoDanglingIndexEntry == DOMAIN f_viewedIPs \subseteq DOMAIN f_videos

\* an item with an Item Record and a Dedup Index entry was deleted: both
\* are gone
C12_Witness ==
    /\ f_resp.op = "delete" /\ f_resp.status = 200 /\ f_resp.purged
    /\ f_resp.vid \notin DOMAIN f_viewedIPs
    /\ f_resp.vid \notin DOMAIN f_videos

\* C13: in part_003 no request is accepted before loadData() has finished,
\* and loadData() never drops or changes an entry of the in-memory tables.
C13_StartupBarrierPart003 ==
    /\ c_accepted["A"] => c_phase["A"] \in {"serving", "failed"}
    /\ c_resp.op \in {"loadVideos", "load"} => ~c_resp.purged

\* C14: a process of part_001 that is not serving (loadData() is pending or
\* has rejected) has accepted no request and has no handler suspended.
C14_StartupBarrier ==
    \A p \in Procs :
        c_phase[p] # "serving" =>
            ~c_accepted[p] /\ InFlightOf(c_inflight, p) = {}

\* loadData() has rejected after a restart: the process is up and has
\* accepted nothing
C14_Witness ==
    /\ c_phase["A"] = "failed" /\ c_crashes > 0
    /\ c_resp.op = "load" /\ c_resp.status = 500
    /\ ~c_accepted["A"]

\* C15: after a loadData() that failed to read the data file, the
\* file-backed server serves no request, and the data file keeps the
\* contents that were not read.
C15_LoadFailureStopsStart ==
    f_unread.failed =>
        /\ f_resp.op = "restart"
        /\ f_file = f_unread.file

\* C16: GET /videos/:id for an id that never had an Item Record answers
\* NotFound (file-backed server).
C16_GetUnknownIsNotFound ==
    (f_resp.op = "get" /\ f_resp.vid \notin f_observed) => f_resp.status = 404

\* C17: GET /videos/:id is a pure read.  In the file-backed server it leaves
\* videos, viewedIPs and the data file as they were; in the cached server it
\* leaves videos and viewedIPs as they were, starts no handler and performs
\* no store operation.
C17_GetStateIsPureRead ==
    [][/\ f_resp'.op = "get" => UNCHANGED <<f_videos, f_viewedIPs, f_file>>
       /\ c_resp'.op = "get" =>
              UNCHANGED <<c_videos, c_viewedIPs, c_inflight, db_videos, db_viewed>>]_vars

\* both servers have answered a GET for an id they hold no record of, and
\* hold no record of it afterwards
C17_Witness ==
    /\ f_resp.op = "get" /\ f_resp.vid \notin DOMAIN f_videos
    /\ c_resp.op = "get" /\ c_resp.status = 404
    /\ c_resp.vid \notin DOMAIN c_videos[c_resp.proc]

\* C18: a recordView whose pair is already in the Dedup Index answers the
\* current viewCount and changes nothing: in the file-backed server videos,
\* viewedIPs and the data file stay as they were (no saveData()); in the
\* cached server every viewCount and the Dedup Index stay as they were and
\* no store operation is started or performed.
C18_DuplicateViewIsNoOp ==
    [][/\ (/\ f_resp'.op = "view"
           /\ f_resp'.ip \in Members(f_viewedIPs, f_resp'.vid)) =>
              /\ UNCHANGED <<f_videos, f_viewedIPs, f_file>>
              /\ f_resp'.status = 200
              /\ f_resp'.views = ViewsOf(f_videos, f_resp'.vid)
       /\ (/\ c_resp'.op = "view" /\ c_resp'.status = 200
           /\ c_inflight' = c_inflight
           /\ c_resp'.ip \in Members(c_viewedIPs[c_resp'.proc], c_resp'.vid)) =>
              /\ \A v \in DbVideoIds :
                     ViewsOf(c_videos'[c_resp'.proc], v) = ViewsOf(c_videos[c_resp'.proc], v)
              /\ UNCHANGED <<c_viewedIPs, db_videos, db_viewed>>
              /\ c_resp'.views = ViewsOf(c_videos[c_resp'.proc], c_resp'.vid)]_vars

\* both servers have just answered a duplicate view
C18_Witness ==
    /\ f_resp.op = "view" /\ f_resp.status = 200 /\ ~f_resp.incremented
    /\ f_resp.ip \in Members(f_viewedIPs, f_resp.vid)
    /\ c_resp.op = "view" /\ c_resp.status = 200 /\ ~c_resp.incremented
    /\ c_resp.ip \in Members(c_viewedIPs[c_resp.proc], c_resp.vid)

\* C19: in the cached server every Item Record's viewCount, in memory and in
\* the store, is at least 0.
C19_ViewCountNonNegative ==
    /\ \A p \in Procs : \A v \in DOMAIN c_videos[p] : c_videos[p][v].views >= 0
    /\ \A v \in DOMAIN db_videos : db_videos[v].views >= 0

\* C20: in the file-backed server a step never lowers the viewCount of an
\* item that stays in the table, and only a recordView changes it.
C20_ViewCountMonotone ==
    [][\A v \in DOMAIN f_videos \cap DOMAIN f_videos' :
           /\ f_videos'[v].views >= f_videos[v].views
           /\ f_videos'[v].views # f_videos[v].views => f_resp'.op = "view"]_vars

\* C21: in the file-backed server no Item Record, in memory or in data.json,
\* ever holds an uploadTime later than the clock; a set-upload-time request
\* that is rejected leaves the item table unchanged; a bulk update sets the
\* uploadTime of the ids of its accepted entries (the last entry of an id
\* wins), keeps their views, and leaves every other record unchanged, the
\* ids of its rejected entries included.
C21_UploadTimeNotInFuture ==
    [][ /\ \A v \in DOMAIN f_videos' : f_videos'[v].uploadTime <= now'
        /\ \A v \in DOMAIN f_file'.videos : f_file'.videos[v].uploadTime <= now'
        /\ (f_resp'.op = "set-upload-time" /\ f_resp'.status = 400) =>
               f_videos' = f_videos
        /\ (f_resp'.op = "bulk-update-times" /\ f_resp'.status = 200) =>
               LET res     == f_resp'.results
                   touched == {res[i].id : i \in DOMAIN res}
               IN  /\ DOMAIN f_videos' = DOMAIN f_videos \cup touched
                   /\ \A v \in DOMAIN f_videos' :
                          IF v \in touched
                          THEN /\ f_videos'[v].views = ViewsOf(f_videos, v)
                               /\ \E i \in DOMAIN res :
                                      /\ res[i].id = v
                                      /\ \A j \in DOMAIN res : j > i => res[j].id # v
                                      /\ f_videos'[v].uploadTime = res[i].newTime
                          ELSE f_videos'[v] = f_videos[v]
      ]_vars

\* a bulk update with one rejected and one accepted entry has set the
\* uploadTime of item "1" to the current time, after the clock has advanced
C21_Witness ==
    /\ f_resp.op = "bulk-update-times"
    /\ f_resp.updatedCount = 1
    /\ f_resp.errorCount = 1
    /\ now = 1
    /\ f_videos["1"].uploadTime = 1

\* C22: in part_004 and in the controller part_000 no Item Record, in memory
\* or in the Video collection, holds an uploadTime that is a date later than
\* the clock.
C22_LateUploadTimeNotInFuture ==
    /\ \A v \in DOMAIN p4_videos :
           p4_videos[v].uploadTime.kind = "date" => p4_videos[v].uploadTime.t <= now
    /\ \A v \in DOMAIN db_videos : db_videos[v].uploadTime <= now

\* C23: in part_003 a recordView call on an item that already has an
\* in-memory record leaves the record's uploadTime, title and loading flag
\* as they were before the call.  Stated for the calls that run from the
\* request to the response without an await (the pair is already in the
\* Dedup Index), whose before and after are the two states of one step.
C23_RecordViewMutatesOnlyCount ==
    [][ \A v \in DOMAIN c_videos["A"] :
           (c_resp'.op = "view" /\ c_resp'.status = 200 /\ c_resp'.vid = v
               /\ ~c_resp'.incremented) =>
                  /\ v \in DOMAIN c_videos'["A"]
                  /\ c_videos'["A"][v].uploadTime = c_videos["A"][v].uploadTime
                  /\ c_videos'["A"][v].title = c_videos["A"][v].title
                  /\ c_videos'["A"][v].loading = c_videos["A"][v].loading
      ]_vars

\* C24: when the unique index refuses the receipt insert of a recordView
\* call of the cached server, the call is answered as a success, not as an
\* error, and the process's in-memory viewCount of the item equals the
\* store's.
C24_RaceLossIsAlreadyCounted ==
    (c_resp.op = "view" /\ c_resp.err = "E11000") =>
        /\ c_resp.status = 200
        /\ c_videos[c_resp.proc][c_resp.vid].views = db_videos[c_resp.vid].views

\* C25: when recordView of part_004 has answered with a viewCount that
\* includes a newly counted view, data.json holds a record of the item with
\* at least that viewCount, and holds the client in the item's entry of the
\* Dedup Index.
C25_NoAckAheadOfFile ==
    (p4_resp.op = "view" /\ p4_resp.status = 200 /\ p4_resp.incremented) =>
        /\ p4_resp.vid \in DOMAIN p4_file.videos
        /\ p4_file.videos[p4_resp.vid].views >= p4_resp.views
        /\ p4_resp.vid \in DOMAIN p4_file.viewedIPs
        /\ p4_resp.ip \in p4_file.viewedIPs[p4_resp.vid].members

\* C26: when loadData() of the cached server has completed, every itemId
\* with an entry in the process's Dedup Index has an Item Record in the
\* process's item table.
C26_NoOrphanAfterLoad ==
    (c_resp.op = "load" /\ c_resp.status = 0) =>
        DOMAIN c_viewedIPs[c_resp.proc] \subseteq DOMAIN c_videos[c_resp.proc]

\* C27: in the file-backed server, started without a data file, the
\* viewCount of every item equals the number of distinct clients the Dedup
\* Index holds for the item.
C27_ViewCountEqualsReceipts ==
    \A v \in DOMAIN f_videos :
        f_videos[v].views = Cardinality(Members(f_viewedIPs, v))

\* C28: the ViewedIP collection never holds more than one document for a
\* pair (videoId, ip), whatever the interleaving of the recordView handlers
\* of the cached server's processes and of the MongoDB-only server.
C28_AtMostOneReceiptPerPair ==
    \A pr \in Pairs : db_viewed[pr] <= 1

\* a process of the cached server has inserted the Receipt of a pair and
\* the insert of the MongoDB-only server for the same pair was refused
C28_Witness ==
    /\ c_resp.op = "view" /\ c_resp.status = 200 /\ c_resp.incremented
    /\ m_resp.op = "view" /\ m_resp.err = "E11000"
    /\ m_resp.vid = c_resp.vid /\ m_resp.ip = c_resp.ip
    /\ db_viewed[<<c_resp.vid, c_resp.ip>>] = 1

\* C29: in one process of the cached server, with every item created lazily,
\* once no recordView handler is in flight each item's in-memory viewCount
\* equals the number of distinct clients that called recordView for the
\* item, whatever the interleaving of the calls on the items.
C29_IndependenceAcrossItems ==
    c_inflight = EmptyBag =>
        \A v \in DbVideoIds :
            ViewsOf(c_videos["A"], v) = Cardinality(c_called["A"][v])

\* both items were created lazily, both clients have called recordView for
\* both, and the last call was a repeat
C29_Witness ==
    /\ c_inflight = EmptyBag
    /\ db_videos = <<>>
    /\ \A v \in DbVideoIds : ViewsOf(c_videos["A"], v) = Cardinality(ClientIPs)
    /\ c_resp.op = "view" /\ c_resp.status = 200 /\ ~c_resp.incremented

\* C30: when a recordView call of the cached server has finished and no
\* other handler is in flight, the store's viewCount of the item (an item
\* with an Item Record, uploaded with viewCount 0) equals the number of
\* Receipts of the item: each +1 has its Receipt and each Receipt its +1.
C30_AllOrNothingDurableEffect ==
    (c_resp.op = "view" /\ c_inflight = EmptyBag
        /\ c_resp.vid \in DOMAIN db_videos) =>
            db_videos[c_resp.vid].views =
                Cardinality(DbReceiptsOf(db_viewed, c_resp.vid))

\* C31: once a DELETE and the recordView calls of item "1" that ran beside
\* it have all completed (no handler is suspended and the store has run the
\* delete), memory and store agree on the item: it is absent from videos,
\* viewedIPs, the Video collection and the ViewedIP collection, or it is in
\* all four with one viewCount and one set of counted clients.
C31_DeleteAndViewAgree ==
    (c_inflight = EmptyBag /\ c_resp.op \in {"view", "delete"}
        /\ c_resp.status # 404 /\ "1" \notin DOMAIN db_videos) =>
        \/ /\ "1" \notin DOMAIN c_videos["A"]
           /\ "1" \notin DOMAIN c_viewedIPs["A"]
           /\ "1" \notin DOMAIN db_videos
           /\ DbReceiptsOf(db_viewed, "1") = {}
        \/ /\ "1" \in DOMAIN c_videos["A"]
           /\ "1" \in DOMAIN c_viewedIPs["A"]
           /\ "1" \in DOMAIN db_videos
           /\ c_videos["A"]["1"].views = db_videos["1"].views
           /\ c_viewedIPs["A"]["1"].members = DbReceiptsOf(db_viewed, "1")

\* C32: with recordView and set-views requests on item "1" and a store
\* that does not fail, once every request has completed the in-memory
\* viewCount of the item equals the viewCount of its Video document.
C32_CacheAndStoreAgree ==
    (c_inflight = EmptyBag /\ c_resp.op \in {"view", "set-views"}
        /\ c_resp.status = 200) =>
        c_videos["A"]["1"].views = db_videos["1"].views

\* C33: when loadData() of part_003 has completed, the itemIds of the
\* in-memory item table are the itemIds of the Video documents in the store.
C33_LoadRebuildsItemTable ==
    (c_resp.op = "load" /\ c_resp.status = 0 /\ c_resp.proc = "A") =>
        DOMAIN c_videos["A"] = DOMAIN db_videos

C35_RecordViewFinishesCleanly ==
    /\ (c_resp.op = "view" /\ c_resp.status # 0) =>
           ~C_FinallyThrows(c_videos[c_resp.proc], c_resp.vid)
    /\ \A v \in DOMAIN c_videos["A"] :
           (\A r \in BagToSet(c_inflight) :
                ~(r.vid = v /\ r.pc \in {"updateOne", "create"})) =>
               ~c_videos["A"][v].loading

\* whether the entry of key y is the same in the tables old and new
SameEntry(old, new, y) ==
    /\ (y \in DOMAIN new) = (y \in DOMAIN old)
    /\ y \in DOMAIN old => new[y] = old[y]

\* C36: a step of recordView(X, c) leaves the Item Record and the Dedup
\* Index set of every other item as they were, in the file-backed server and
\* in the cached server, and in the cached server it changes no Video
\* document and no Receipt of another item.
C36_RecordViewTouchesOwnItem ==
    [][ /\ f_resp'.op = "view" =>
              \A y \in VideoIds \ {f_resp'.vid} :
                  /\ SameEntry(f_videos, f_videos', y)
                  /\ SameEntry(f_viewedIPs, f_viewedIPs', y)
        /\ c_phase' = c_phase =>
              LET own == {r.vid : r \in {q \in BagToSet(c_inflight') :
                              CopiesIn(q, c_inflight') > CopiesIn(q, c_inflight)}}
                         \cup (IF c_resp'.op = "view" THEN {c_resp'.vid} ELSE {})
              IN  \A y \in (DbVideoIds \cup DOMAIN db_videos) \ own :
                      /\ SameEntry(c_videos["A"], c_videos'["A"], y)
                      /\ SameEntry(c_viewedIPs["A"], c_viewedIPs'["A"], y)
                      /\ SameEntry(db_videos, db_videos', y)
                      /\ \A pr \in Pairs : pr[1] = y => db_viewed'[pr] = db_viewed[pr]
      ]_vars

\* both servers have counted a view of an item that is not the seeded one,
\* and the seeded item is as it was at the start
C36_Witness ==
    /\ f_resp.op = "view" /\ f_resp.vid = "42" /\ f_resp.incremented
    /\ f_videos["1"].views = SeedViews1
    /\ c_resp.op = "view" /\ c_resp.vid = "7" /\ c_resp.status = 200
    /\ c_resp.incremented
    /\ "1" \in DOMAIN c_videos["A"] /\ c_videos["A"]["1"].views = 0
    /\ db_videos["1"].views = 0

\* C37: in part_004, while the process is not killed, a viewCount reached in
\* memory is eventually in the data file (the file holds that count or a
\* later one), and every save (the timer or SIGINT) stores for each item the
\* viewCount that memory holds at that moment.
C37_EventualPersistence ==
    /\ [][ p4_resp'.op \in {"save", "restart"} =>
               /\ DOMAIN p4_file'.videos = DOMAIN p4_videos
               /\ \A v \in DOMAIN p4_videos :
                      p4_file'.videos[v].views = p4_videos[v].views ]_vars
    /\ \A v \in AdminVideoIds :
       \A n \in UNION {{k, SeedViews1 + k} : k \in 1..Cardinality(ClientIPs)} :
           (v \in DOMAIN p4_videos /\ p4_videos[v].views = n)
               ~> (v \in DOMAIN p4_file.videos /\ p4_file.videos[v].views >= n)

\* the timer has fired after a counted view of the seeded item and of a
\* lazily created one, and the file holds both counts
C37_Witness ==
    /\ p4_resp.op = "save"
    /\ p4_videos["1"].views = SeedViews1 + 1
    /\ p4_file.videos["1"].views = SeedViews1 + 1
    /\ "42" \in DOMAIN p4_file.videos /\ p4_file.videos["42"].views = 1

\* C38: DELETE /admin/videos/:id of the file-backed server for an id without
\* an Item Record answers 404 and leaves videos, viewedIPs and the data file
\* as they were, without saving; for an id with an Item Record it answers
\* 200, and the record and the Dedup Index entry are gone from memory and
\* from the file it saved.
C38_DeleteUnknownHasNoEffect ==
    [][ f_resp'.op = "delete" =>
          IF f_resp'.vid \notin DOMAIN f_videos
          THEN /\ f_resp'.status = 404 /\ ~f_resp'.saved
               /\ f_videos' = f_videos /\ f_viewedIPs' = f_viewedIPs
               /\ f_file' = f_file
          ELSE /\ f_resp'.status = 200 /\ f_resp'.saved
               /\ f_resp'.vid \notin DOMAIN f_videos'
               /\ f_resp'.vid \notin DOMAIN f_viewedIPs'
               /\ f_resp'.vid \notin DOMAIN f_file'.videos
               /\ f_resp'.vid \notin DOMAIN f_file'.viewedIPs
               /\ \A y \in VideoIds \ {f_resp'.vid} :
                      /\ SameEntry(f_videos, f_videos', y)
                      /\ SameEntry(f_viewedIPs, f_viewedIPs', y) ]_vars

\* item "42" was created by a view and deleted, and a second DELETE of it
\* has been answered 404
C38_Witness ==
    /\ f_resp.op = "delete" /\ f_resp.status = 404 /\ f_resp.vid = "42"
    /\ "42" \in f_observed
    /\ "42" \notin DOMAIN f_videos /\ "42" \notin DOMAIN f_file.videos

====
